---- MODULE Spec2Model ----
(***************************************************************************)
(* A model of the fun-walk route engines (fun-path-nextjs).                *)
(*                                                                         *)
(*   - OSMRoutingEngine (services/routeEngine.ts, lines 174-951): the      *)
(*     Overpass snapshot is turned into a graph by buildGraph, coordinates *)
(*     are snapped by findNearestNode, findShortestPath/findBalancedPath   *)
(*     search it and calculateMultipleRoutes assembles the route list.     *)
(*   - RouteEngine (services/routeEngine.ts, lines 3-126) and the POST     *)
(*     handler of app/api/routes/route.ts: the backend proxy.              *)
(*                                                                         *)
(* Numbers.  JavaScript numbers are modelled by exact integers.  Every     *)
(* coordinate lies on one meridian (lng = 0) and its latitude is a whole   *)
(* number of grid steps; UnitsPerMeter grid steps make one meter.  On a    *)
(* meridian the haversine distance is the difference of the latitudes, so  *)
(* calculateDistance is exact on this grid.  Lengths and weights are held  *)
(* in quanta: one grid step is FunScale quanta, with FunScale a common     *)
(* multiple of every doubled interest score the modelled tags can give, so *)
(* that length / score is a whole number of quanta.                        *)
(*                                                                         *)
(* Maps.  A JavaScript Map or Set iterates in insertion order, which the   *)
(* searches depend on; a Map is a sequence of [key, val] records.          *)
(***************************************************************************)
EXTENDS Integers, Sequences, FiniteSets, TLC

\* ------------------------------------------------------------- bounds
\* Latitudes of the modelled coordinates are 0 .. MaxPos grid steps.
MaxPos == 2
\* Grid steps per meter (the resolution of the grid).
UnitsPerMeter == 2

\* ---------------------------------------------------------- constants
\* routeEngine.ts:503  const maxIterations = 50000
maxIterations == 50000

Null == "null"
Undefined == "undefined"
\* Larger than the weight of every path of the modelled graphs.
Infinity == 2^30

Abs(x) == IF x < 0 THEN -x ELSE x

\* ------------------------------------------------------------ Map/Set
MapHas(m, k) == \E i \in 1..Len(m) : m[i].key = k
MapIndex(m, k) == CHOOSE i \in 1..Len(m) : m[i].key = k
MapGet(m, k) == IF MapHas(m, k) THEN m[MapIndex(m, k)].val ELSE Undefined
MapSet(m, k, v) ==
  IF MapHas(m, k) THEN [m EXCEPT ![MapIndex(m, k)] = [key |-> k, val |-> v]]
  ELSE Append(m, [key |-> k, val |-> v])
MapKeys(m) == [i \in 1..Len(m) |-> m[i].key]
MapKeySet(m) == {m[i].key : i \in 1..Len(m)}

SeqToSet(s) == {s[i] : i \in 1..Len(s)}

RECURSIVE Filter(_, _)
\* Array.prototype.filter with the predicate given as the set of kept values.
Filter(s, keep) ==
  IF s = <<>> THEN <<>>
  ELSE (IF Head(s) \in keep THEN <<Head(s)>> ELSE <<>>) \o Filter(Tail(s), keep)

\* ---------------------------------------------------------------- tags
EmptyTags == [k \in {} |-> ""]
Tag(tags, k) == IF k \in DOMAIN tags THEN tags[k] ELSE Undefined
ElementTags(el) == IF "tags" \in DOMAIN el THEN el.tags ELSE EmptyTags

\* ----------------------------------------------------------- geometry
Coord(p) == [lat |-> p, lng |-> 0]

\* One grid step in quanta: the least common multiple of the doubled scores 2..10
\* except 4, 7 and 8, which no modelled tag set reaches.
FunScale == 2 * 3 * 3 * 5

\* OSMRoutingEngine.calculateDistance, in quanta.
calculateDistance(coord1, coord2) == Abs(coord2.lat - coord1.lat) * FunScale

\* One meter in quanta.
Meter == UnitsPerMeter * FunScale

\* ------------------------------------------------------------ buildGraph
\* element.id.toString()
IdString(id) == ToString(id)

FUN_HIGHWAYS == {"footway", "path", "pedestrian", "track", "steps", "cycleway"}

\* Names whose lower-case form includes 'water' / 'scenic'.
WaterNames == {"Waterfront"}
ScenicNames == {"Scenic Trail"}

\* Twice the interest score of calculateFunWeight (the bonuses are halves).
Score2(tags) ==
    2
  + (IF Tag(tags, "highway") \in FUN_HIGHWAYS THEN 4 ELSE 0)
  + (IF Tag(tags, "leisure") = "park" THEN 3 ELSE 0)
  + (IF Tag(tags, "tourism") \in {"viewpoint", "attraction"} THEN 6 ELSE 0)
  + (IF Tag(tags, "landuse") = "forest" \/ Tag(tags, "natural") = "wood" THEN 3 ELSE 0)
  + (IF Tag(tags, "waterway") # Undefined \/ Tag(tags, "name") \in WaterNames THEN 3 ELSE 0)
  + (IF Tag(tags, "historic") # Undefined THEN 4 ELSE 0)
  + (IF Tag(tags, "scenic") = "yes" \/ Tag(tags, "name") \in ScenicNames THEN 5 ELSE 0)

\* fun_weight = length / score
calculateFunWeight(way, length) == (length * 2) \div Score2(way.tags)

RECURSIVE ProcessNodes(_, _)
\* buildGraph, first loop: the node elements that carry coordinates.
ProcessNodes(elements, nodes) ==
  IF elements = <<>> THEN nodes
  ELSE LET element == Head(elements)
           next == IF element.type = "node" /\ "lat" \in DOMAIN element /\ "lon" \in DOMAIN element
                   THEN MapSet(nodes, IdString(element.id),
                               [id |-> IdString(element.id), lat |-> element.lat,
                                lng |-> element.lon, tags |-> ElementTags(element)])
                   ELSE nodes
       IN ProcessNodes(Tail(elements), next)

NodeCoord(nodes, nodeId) ==
  LET n == MapGet(nodes, nodeId) IN [lat |-> n.lat, lng |-> n.lng]

RECURSIVE WayLength(_, _)
\* The sum of the distances between consecutive nodes of a way.
WayLength(nodes, wayNodes) ==
  IF Len(wayNodes) < 2 THEN 0
  ELSE (IF MapHas(nodes, wayNodes[1]) /\ MapHas(nodes, wayNodes[2])
        THEN calculateDistance(NodeCoord(nodes, wayNodes[1]), NodeCoord(nodes, wayNodes[2]))
        ELSE 0)
       + WayLength(nodes, Tail(wayNodes))

\* The tests of the way loop without the test of the access tag.
NotForPedestrians_IgnoreAccess(wayTags) ==
  \/ Tag(wayTags, "foot") = "no"
  \/ Tag(wayTags, "highway") \in {"motorway", "trunk", "motorway_link", "trunk_link"}

\* The access and road-class tests of the way loop.
NotForPedestrians(wayTags) ==
  \/ Tag(wayTags, "foot") = "no"
  \/ Tag(wayTags, "access") = "private"
  \/ Tag(wayTags, "highway") \in {"motorway", "trunk", "motorway_link", "trunk_link"}

RECURSIVE ProcessWays(_, _)
\* buildGraph, second loop: tempWays, the walkable ways with their lengths.
ProcessWays(elements, nodes) ==
  IF elements = <<>> THEN <<>>
  ELSE LET element == Head(elements)
           rest == ProcessWays(Tail(elements), nodes)
       IN IF ~(element.type = "way" /\ "nodes" \in DOMAIN element /\ Len(element.nodes) > 1)
          THEN rest
          ELSE LET wayTags == ElementTags(element)
                   wayNodes == [i \in 1..Len(element.nodes) |-> IdString(element.nodes[i])]
                   validNodes == Filter(wayNodes, MapKeySet(nodes))
                   totalLength == WayLength(nodes, validNodes)
               IN IF NotForPedestrians(wayTags) THEN rest
                  ELSE IF Len(validNodes) < 2 THEN rest
                  ELSE IF totalLength < 1 * Meter THEN rest
                  ELSE <<[id |-> IdString(element.id), nodes |-> validNodes,
                          tags |-> wayTags, length |-> totalLength]>> \o rest

VehicleHighways == {"residential", "service", "unclassified", "primary", "secondary", "tertiary"}
PathHighways == {"footway", "path", "track"}

\* The ways detectAndReclassifyAdjacentPaths may judge to run beside a vehicle
\* road: the footways, paths and tracks of a snapshot that also holds a road.
AdjacentCandidates(tempWays) ==
  IF \E i \in 1..Len(tempWays) : Tag(tempWays[i].tags, "highway") \in VehicleHighways
  THEN {tempWays[i].id : i \in {j \in 1..Len(tempWays) :
                                   Tag(tempWays[j].tags, "highway") \in PathHighways}}
  ELSE {}

\* detectAndReclassifyAdjacentPaths(tempWays, nodes): the ways of `adjacent` are
\* reclassified as sidewalks, the others are left alone.
detectAndReclassifyAdjacentPaths(tempWays, adjacent) ==
  [i \in 1..Len(tempWays) |->
     IF tempWays[i].id \in adjacent
     THEN [tempWays[i] EXCEPT !.tags = [k \in DOMAIN tempWays[i].tags |->
                                          IF k = "highway" THEN "sidewalk"
                                          ELSE tempWays[i].tags[k]]]
     ELSE tempWays[i]]

\* adjacency.get(nodeId)!.push(conn), after the entry is created when absent.
PushConnection(adjacency, nodeId, conn) ==
  LET adj == IF MapHas(adjacency, nodeId) THEN adjacency ELSE MapSet(adjacency, nodeId, <<>>)
  IN MapSet(adj, nodeId, Append(MapGet(adj, nodeId), conn))

\* The weight of one segment of a way: its share of the way's fun weight.
SegmentFunWeight(way, segmentDistance) ==
  ((IF way.fun_weight # 0 THEN way.fun_weight ELSE segmentDistance) * segmentDistance)
     \div way.length

RECURSIVE AddSegments_OneWay(_, _, _, _)
\* The inner loop of buildGraph pushing each segment in its forward direction only.
AddSegments_OneWay(adjacency, nodes, way, i) ==
  IF i > Len(way.nodes) - 1 THEN adjacency
  ELSE LET nodeId1 == way.nodes[i]
           nodeId2 == way.nodes[i + 1]
       IN IF ~(MapHas(nodes, nodeId1) /\ MapHas(nodes, nodeId2))
          THEN AddSegments_OneWay(adjacency, nodes, way, i + 1)
          ELSE LET segmentDistance == calculateDistance(NodeCoord(nodes, nodeId1),
                                                        NodeCoord(nodes, nodeId2))
                   segmentFunWeight == SegmentFunWeight(way, segmentDistance)
                   a0 == IF MapHas(adjacency, nodeId1) THEN adjacency
                         ELSE MapSet(adjacency, nodeId1, <<>>)
                   a1 == IF MapHas(a0, nodeId2) THEN a0 ELSE MapSet(a0, nodeId2, <<>>)
                   a2 == PushConnection(a1, nodeId1,
                           [nodeId |-> nodeId2, wayId |-> way.id,
                            distance |-> segmentDistance, fun_weight |-> segmentFunWeight])
               IN AddSegments_OneWay(a2, nodes, way, i + 1)

RECURSIVE AddSegments(_, _, _, _)
\* The inner loop of buildGraph: both directions of segment i, i+1, ... of a way.
AddSegments(adjacency, nodes, way, i) ==
  IF i > Len(way.nodes) - 1 THEN adjacency
  ELSE LET nodeId1 == way.nodes[i]
           nodeId2 == way.nodes[i + 1]
       IN IF ~(MapHas(nodes, nodeId1) /\ MapHas(nodes, nodeId2))
          THEN AddSegments(adjacency, nodes, way, i + 1)
          ELSE LET segmentDistance == calculateDistance(NodeCoord(nodes, nodeId1),
                                                        NodeCoord(nodes, nodeId2))
                   segmentFunWeight == SegmentFunWeight(way, segmentDistance)
                   \* both entries are created before either push
                   a0 == IF MapHas(adjacency, nodeId1) THEN adjacency
                         ELSE MapSet(adjacency, nodeId1, <<>>)
                   a1 == IF MapHas(a0, nodeId2) THEN a0 ELSE MapSet(a0, nodeId2, <<>>)
                   a2 == PushConnection(a1, nodeId1,
                           [nodeId |-> nodeId2, wayId |-> way.id,
                            distance |-> segmentDistance, fun_weight |-> segmentFunWeight])
                   a3 == PushConnection(a2, nodeId2,
                           [nodeId |-> nodeId1, wayId |-> way.id,
                            distance |-> segmentDistance, fun_weight |-> segmentFunWeight])
               IN AddSegments(a3, nodes, way, i + 1)

RECURSIVE AddWays_ForgetWay(_, _, _)
\* AddWays without ways.set(way.id, way).
AddWays_ForgetWay(g, tempWays, i) ==
  IF i > Len(tempWays) THEN g
  ELSE LET way == [id |-> tempWays[i].id, nodes |-> tempWays[i].nodes,
                   tags |-> tempWays[i].tags, length |-> tempWays[i].length,
                   fun_weight |-> calculateFunWeight(tempWays[i], tempWays[i].length)]
       IN AddWays_ForgetWay([nodes |-> g.nodes,
                             ways |-> g.ways,
                             adjacency |-> AddSegments(g.adjacency, g.nodes, way, 1)],
                            tempWays, i + 1)

RECURSIVE AddWays(_, _, _)
\* The loop over tempWays: g.ways and g.adjacency after the ways from index i on.
AddWays(g, tempWays, i) ==
  IF i > Len(tempWays) THEN g
  ELSE LET way == [id |-> tempWays[i].id, nodes |-> tempWays[i].nodes,
                   tags |-> tempWays[i].tags, length |-> tempWays[i].length,
                   fun_weight |-> calculateFunWeight(tempWays[i], tempWays[i].length)]
       IN AddWays([nodes |-> g.nodes,
                   ways |-> MapSet(g.ways, way.id, way),
                   adjacency |-> AddSegments(g.adjacency, g.nodes, way, 1)],
                  tempWays, i + 1)

RECURSIVE ConnectedNodes(_, _)
\* "Remove isolated nodes": the nodes that own a non-empty adjacency entry, in
\* the order of the adjacency entries.
ConnectedNodes(adjacency, nodes) ==
  IF adjacency = <<>> THEN <<>>
  ELSE (IF Len(Head(adjacency).val) > 0 /\ MapHas(nodes, Head(adjacency).key)
        THEN <<[key |-> Head(adjacency).key, val |-> MapGet(nodes, Head(adjacency).key)]>>
        ELSE <<>>)
       \o ConnectedNodes(Tail(adjacency), nodes)

RECURSIVE FilterConnections(_, _)
FilterConnections(connections, connected) ==
  IF connections = <<>> THEN <<>>
  ELSE (IF Head(connections).nodeId \in connected THEN <<Head(connections)>> ELSE <<>>)
       \o FilterConnections(Tail(connections), connected)

RECURSIVE FinalAdjacency(_, _)
\* "Update the graph to only include connected components".
FinalAdjacency(adjacency, connected) ==
  IF adjacency = <<>> THEN <<>>
  ELSE LET validConnections == FilterConnections(Head(adjacency).val, connected)
       IN (IF Head(adjacency).key \in connected /\ Len(validConnections) > 0
           THEN <<[key |-> Head(adjacency).key, val |-> validConnections]>>
           ELSE <<>>)
          \o FinalAdjacency(Tail(adjacency), connected)

\* buildGraph returning every node with coordinates instead of connectedNodes.
buildGraph_KeepAllNodes(elements, adjacent) ==
  LET nodes == ProcessNodes(elements, <<>>)
      tempWays == detectAndReclassifyAdjacentPaths(ProcessWays(elements, nodes), adjacent)
      built == AddWays([nodes |-> nodes, ways |-> <<>>, adjacency |-> <<>>], tempWays, 1)
      connectedNodes == ConnectedNodes(built.adjacency, nodes)
  IN [nodes |-> nodes,
      ways |-> built.ways,
      adjacency |-> FinalAdjacency(built.adjacency, MapKeySet(connectedNodes))]

\* OSMRoutingEngine.buildGraph(osmData); `adjacent` is the verdict of
\* detectAndReclassifyAdjacentPaths.
buildGraph(elements, adjacent) ==
  LET nodes == ProcessNodes(elements, <<>>)
      tempWays == detectAndReclassifyAdjacentPaths(ProcessWays(elements, nodes), adjacent)
      built == AddWays([nodes |-> nodes, ways |-> <<>>, adjacency |-> <<>>], tempWays, 1)
      connectedNodes == ConnectedNodes(built.adjacency, nodes)
  IN [nodes |-> connectedNodes,
      ways |-> built.ways,
      adjacency |-> FinalAdjacency(built.adjacency, MapKeySet(connectedNodes))]

\* OSMRoutingEngine.createFallbackGraph(start, end)
createFallbackGraph(start, end) ==
  LET distance == calculateDistance(start, end)
  IN [nodes |-> <<[key |-> "start", val |-> [id |-> "start", lat |-> start.lat,
                                               lng |-> start.lng, tags |-> EmptyTags]],
                  [key |-> "end", val |-> [id |-> "end", lat |-> end.lat,
                                             lng |-> end.lng, tags |-> EmptyTags]]>>,
      ways |-> <<[key |-> "direct",
                  val |-> [id |-> "direct", nodes |-> <<"start", "end">>,
                           tags |-> [highway |-> "path"], length |-> distance]]>>,
      adjacency |-> <<[key |-> "start",
                       val |-> <<[nodeId |-> "end", wayId |-> "direct",
                                  distance |-> distance, fun_weight |-> distance]>>],
                      [key |-> "end",
                       val |-> <<[nodeId |-> "start", wayId |-> "direct",
                                  distance |-> distance, fun_weight |-> distance]>>]>>]

\* --------------------------------------------------------------- search
\* A search that found nothing returns null; a path is a non-empty sequence of
\* node ids, so null is the empty sequence.
NullPath == <<>>
\* The value of a reconstruction loop that does not end.
NonTerminating == <<"non-terminating">>

NodeIds(graph) == MapKeys(graph.nodes)

\* graph.adjacency.get(nodeId) || []
Neighbors(graph, nodeId) ==
  IF MapHas(graph.adjacency, nodeId) THEN MapGet(graph.adjacency, nodeId) ELSE <<>>

\* OSMRoutingEngine.findNearestNode(graph, coordinate): the first node, in the
\* order of graph.nodes, at a distance strictly below every earlier one.
RECURSIVE NearestFrom(_, _, _, _)
NearestFrom(nodes, coordinate, nearestNode, minDistance) ==
  IF nodes = <<>> THEN nearestNode
  ELSE LET distance == calculateDistance(coordinate,
                         [lat |-> Head(nodes).val.lat, lng |-> Head(nodes).val.lng])
       IN IF distance < minDistance
          THEN NearestFrom(Tail(nodes), coordinate, Head(nodes).key, distance)
          ELSE NearestFrom(Tail(nodes), coordinate, nearestNode, minDistance)

findNearestNode(graph, coordinate) == NearestFrom(graph.nodes, coordinate, Null, Infinity)

\* distances.get(nodeId) || Infinity: a distance of 0 is falsy, as is a missing one.
DistOrInfinity(distances, nodeId) ==
  IF nodeId \in DOMAIN distances /\ distances[nodeId] # 0 THEN distances[nodeId] ELSE Infinity

\* distances.get(currentNode) || 0
DistOrZero(distances, nodeId) ==
  IF nodeId \in DOMAIN distances THEN distances[nodeId] ELSE 0

RECURSIVE MinUnvisited(_, _, _, _)
\* "Find unvisited node with minimum distance": null when none is below Infinity.
MinUnvisited(unvisited, distances, currentNode, minDist) ==
  IF unvisited = <<>> THEN currentNode
  ELSE LET dist == DistOrInfinity(distances, Head(unvisited))
       IN IF dist < minDist
          THEN MinUnvisited(Tail(unvisited), distances, Head(unvisited), dist)
          ELSE MinUnvisited(Tail(unvisited), distances, currentNode, minDist)

\* The edge weight a search reads: the distance, the fun weight, or the balanced
\* weight 0.7 x distance + 0.3 x fun weight (held in tenths of a quantum).
EdgeWeight(neighbor, objective) ==
  CASE objective = "length" -> neighbor.distance
    [] objective = "fun" -> neighbor.fun_weight
    [] objective = "balanced" -> 7 * neighbor.distance + 3 * neighbor.fun_weight

RECURSIVE Relax(_, _, _, _)
\* "Check neighbors": the loop over the connections of currentNode.
Relax(st, neighbors, currentNode, objective) ==
  IF neighbors = <<>> THEN st
  ELSE LET neighbor == Head(neighbors)
           altDistance == DistOrZero(st.distances, currentNode) + EdgeWeight(neighbor, objective)
       IN IF neighbor.nodeId \notin SeqToSet(st.unvisited)
          THEN Relax(st, Tail(neighbors), currentNode, objective)
          ELSE IF altDistance < DistOrInfinity(st.distances, neighbor.nodeId)
          THEN Relax([st EXCEPT !.distances[neighbor.nodeId] = altDistance,
                                !.previous[neighbor.nodeId] = currentNode],
                     Tail(neighbors), currentNode, objective)
          ELSE Relax(st, Tail(neighbors), currentNode, objective)

\* The search state with every node its own predecessor.
SearchInit_SelfPredecessor(graph, startNodeId) ==
  [distances |-> [n \in MapKeySet(graph.nodes) \cup {startNodeId} |->
                    IF n = startNodeId THEN 0 ELSE Infinity],
   previous |-> [n \in MapKeySet(graph.nodes) |-> n],
   unvisited |-> NodeIds(graph),
   iterations |-> 0]

\* "Initialize": every node at Infinity with no predecessor, the start at 0.
SearchInit(graph, startNodeId) ==
  [distances |-> [n \in MapKeySet(graph.nodes) \cup {startNodeId} |->
                    IF n = startNodeId THEN 0 ELSE Infinity],
   previous |-> [n \in MapKeySet(graph.nodes) |-> Null],
   unvisited |-> NodeIds(graph),
   iterations |-> 0]

RECURSIVE SearchLoop(_, _, _, _, _)
\* The while loop of findShortestPath (cap = maxIterations) and of
\* findBalancedPath (no cap: cap = Infinity).
SearchLoop(graph, endNodeId, st, objective, cap) ==
  IF ~(Len(st.unvisited) > 0 /\ st.iterations < cap) THEN st
  ELSE LET currentNode == MinUnvisited(st.unvisited, st.distances, Null, Infinity)
           counted == [st EXCEPT !.iterations = st.iterations + 1]
       IN IF currentNode = Null THEN counted
          ELSE IF currentNode = endNodeId THEN counted
          ELSE SearchLoop(graph, endNodeId,
                          Relax([counted EXCEPT !.unvisited =
                                   Filter(counted.unvisited,
                                          SeqToSet(counted.unvisited) \ {currentNode})],
                                Neighbors(graph, currentNode), currentNode, objective),
                          objective, cap)

RECURSIVE Unwind(_, _, _, _)
\* while (current !== null) { path.unshift(current); current = previous.get(current) || null }
Unwind(previous, current, path, fuel) ==
  IF current = Null THEN path
  ELSE IF fuel = 0 THEN NonTerminating
  ELSE Unwind(previous,
              IF current \in DOMAIN previous THEN previous[current] ELSE Null,
              <<current>> \o path, fuel - 1)

\* The reconstruction without its test for a missing predecessor.
ReconstructPath_NoNullCheck(previous, endNodeId) ==
  Unwind(previous, endNodeId, <<>>, Cardinality(DOMAIN previous) + 1)

\* "Reconstruct path": null when the end node has no predecessor.
ReconstructPath(previous, endNodeId) ==
  IF endNodeId \notin DOMAIN previous \/ previous[endNodeId] = Null THEN NullPath
  ELSE Unwind(previous, endNodeId, <<>>, Cardinality(DOMAIN previous) + 1)

\* OSMRoutingEngine.findShortestPath(graph, startNodeId, endNodeId, useLength)
findShortestPath(graph, startNodeId, endNodeId, useLength) ==
  IF ~MapHas(graph.nodes, startNodeId) THEN NullPath
  ELSE IF ~MapHas(graph.nodes, endNodeId) THEN NullPath
  ELSE IF Len(Neighbors(graph, startNodeId)) = 0 THEN NullPath
  ELSE IF Len(Neighbors(graph, endNodeId)) = 0 THEN NullPath
  ELSE ReconstructPath(
         SearchLoop(graph, endNodeId, SearchInit(graph, startNodeId),
                    IF useLength THEN "length" ELSE "fun", maxIterations).previous,
         endNodeId)

\* OSMRoutingEngine.findBalancedPath(graph, startNodeId, endNodeId)
findBalancedPath(graph, startNodeId, endNodeId) ==
  ReconstructPath(
    SearchLoop(graph, endNodeId, SearchInit(graph, startNodeId), "balanced", Infinity).previous,
    endNodeId)

\* ---------------------------------------------------------------- routes
RECURSIVE FindConnection(_, _)
\* neighbors.find(n => n.nodeId === nodeId): the first connection to nodeId.
FindConnection(neighbors, nodeId) ==
  IF neighbors = <<>> THEN <<>>
  ELSE IF Head(neighbors).nodeId = nodeId THEN <<Head(neighbors)>>
  ELSE FindConnection(Tail(neighbors), nodeId)

RECURSIVE StatsFrom(_, _, _, _)
\* The loop of calculateRouteStats: totalDistance and totalFunWeight.
StatsFrom(graph, path, i, acc) ==
  IF i > Len(path) - 1 THEN acc
  ELSE IF ~(MapHas(graph.nodes, path[i]) /\ MapHas(graph.nodes, path[i + 1]))
  THEN StatsFrom(graph, path, i + 1, acc)
  ELSE LET segmentDistance == calculateDistance(NodeCoord(graph.nodes, path[i]),
                                                NodeCoord(graph.nodes, path[i + 1]))
           connection == FindConnection(Neighbors(graph, path[i]), path[i + 1])
       IN StatsFrom(graph, path, i + 1,
                    [distance |-> acc.distance + segmentDistance,
                     fun_weight |-> acc.fun_weight
                                    + (IF connection = <<>> THEN 0 ELSE connection[1].fun_weight)])

\* OSMRoutingEngine.calculateRouteStats(graph, path)
calculateRouteStats(graph, path) ==
  LET totals == StatsFrom(graph, path, 1, [distance |-> 0, fun_weight |-> 0])
  IN [distance |-> totals.distance, fun_weight |-> totals.fun_weight, waypoints |-> Len(path)]

\* path.map(nodeId => ({ lat: node.lat, lng: node.lng }))
PathCoordinates(graph, path) == [i \in 1..Len(path) |-> NodeCoord(graph.nodes, path[i])]

\* OSMRoutingEngine.createFallbackRoutes(start, end)
createFallbackRoutes(start, end) ==
  LET directDistance == calculateDistance(start, end)
  IN <<[name |-> "DIRECT",
        coordinates |-> <<start, end>>,
        stats |-> [distance |-> directDistance, fun_weight |-> directDistance, waypoints |-> 2],
        priority |-> "speed"]>>

RECURSIVE InsertByDistance(_, _)
\* One step of the stable sort of findNearbyNodes: after the entries that are
\* not farther.
InsertByDistance(sorted, item) ==
  IF sorted = <<>> THEN <<item>>
  ELSE IF Head(sorted).distance <= item.distance
  THEN <<Head(sorted)>> \o InsertByDistance(Tail(sorted), item)
  ELSE <<item>> \o sorted

RECURSIVE SortByDistance(_, _)
SortByDistance(nearby, sorted) ==
  IF nearby = <<>> THEN sorted
  ELSE SortByDistance(Tail(nearby), InsertByDistance(sorted, Head(nearby)))

RECURSIVE WithConnections(_, _)
WithConnections(graph, nearby) ==
  IF nearby = <<>> THEN <<>>
  ELSE (IF Len(Neighbors(graph, Head(nearby).id)) > 0 THEN <<Head(nearby)>> ELSE <<>>)
       \o WithConnections(graph, Tail(nearby))

\* OSMRoutingEngine.findNearbyNodes(graph, coordinate, count)
findNearbyNodes(graph, coordinate, count) ==
  LET nearby == [i \in 1..Len(graph.nodes) |->
                   [id |-> graph.nodes[i].key,
                    distance |-> calculateDistance(coordinate,
                                   [lat |-> graph.nodes[i].val.lat, lng |-> graph.nodes[i].val.lng])]]
      kept == WithConnections(graph, SortByDistance(nearby, <<>>))
  IN SubSeq(kept, 1, IF Len(kept) < count THEN Len(kept) ELSE count)

RECURSIVE SimplePath(_, _, _, _, _)
\* The nested loops of createSimpleRoute: the first path of more than one node
\* between nearby start node i and nearby end node j, or null.
SimplePath(graph, starts, ends, i, j) ==
  IF i > Len(starts) THEN NullPath
  ELSE IF j > Len(ends) THEN SimplePath(graph, starts, ends, i + 1, 1)
  ELSE LET path == findShortestPath(graph, starts[i].id, ends[j].id, TRUE)
       IN IF path # NullPath /\ Len(path) > 1 THEN path
          ELSE SimplePath(graph, starts, ends, i, j + 1)

\* OSMRoutingEngine.createSimpleRoute(graph, start, end): the routes it adds
\* (none when it returns null).
createSimpleRoute(graph, start, end) ==
  LET path == SimplePath(graph, findNearbyNodes(graph, start, 5),
                         findNearbyNodes(graph, end, 5), 1, 1)
  IN IF path = NullPath THEN <<>>
     ELSE <<[name |-> "SIMPLE",
             coordinates |-> <<start>> \o PathCoordinates(graph, path) \o <<end>>,
             stats |-> calculateRouteStats(graph, path),
             priority |-> "speed"]>>

\* The offsets createAlternativeRoute may add to a coordinate, in grid steps.
Offsets == {-1, 1}

\* OSMRoutingEngine.createAlternativeRoute(baseCoordinates): the end points are
\* kept, every point between them is moved by offsets[index].
createAlternativeRoute(baseCoordinates, offsets) ==
  [index \in 1..Len(baseCoordinates) |->
     IF index = 1 \/ index = Len(baseCoordinates) THEN baseCoordinates[index]
     ELSE [lat |-> baseCoordinates[index].lat + offsets[index][1],
           lng |-> baseCoordinates[index].lng + offsets[index][2]]]

\* ----------------------------------------------------------- RouteEngine
\* RouteEngine.createFallbackRoutes(start, end)
RouteEngine_createFallbackRoutes(reqStart, reqEnd) ==
  LET distance == calculateDistance(reqStart, reqEnd)
  IN <<[name |-> "DIRECT",
        route |-> <<reqStart, reqEnd>>,
        stats |-> [distance |-> distance, fun_weight |-> distance, waypoints |-> 2],
        priority |-> "speed"]>>

\* The callback of data.routes.map: it throws on an entry without a
\* coordinates array, and copies lat and lng of every coordinate.
ConvertThrows(route) == "coordinates" \notin DOMAIN route

ConvertRoute(route) ==
  [name |-> route.name,
   route |-> [i \in 1..Len(route.coordinates) |->
                [lat |-> route.coordinates[i].lat, lng |-> route.coordinates[i].lng]],
   stats |-> route.stats,
   priority |-> route.priority]

\* The try block of RouteEngine.calculateMultipleRoutes, lines 7-51, on the
\* answer the backend gives: what it returns, or that it threw.
TryBackend(answer) ==
  IF answer.kind \in {"timeout", "network"} THEN [threw |-> TRUE]
  ELSE IF ~answer.ok THEN [threw |-> TRUE]
  ELSE IF answer.json = "invalid" THEN [threw |-> TRUE]
  ELSE IF "success" \notin DOMAIN answer.data \/ ~answer.data.success THEN [threw |-> TRUE]
  ELSE IF "routes" \notin DOMAIN answer.data THEN [threw |-> TRUE]
  ELSE IF \E i \in 1..Len(answer.data.routes) : ConvertThrows(answer.data.routes[i])
  THEN [threw |-> TRUE]
  ELSE [threw |-> FALSE,
        routes |-> [i \in 1..Len(answer.data.routes) |-> ConvertRoute(answer.data.routes[i])]]

\* RouteEngine.calculateMultipleRoutes with a catch block that returns no route.
RouteEngine_calculateMultipleRoutes_NoFallback(reqStart, reqEnd, answer) ==
  LET tried == TryBackend(answer)
  IN IF tried.threw THEN <<>> ELSE tried.routes

\* RouteEngine.calculateMultipleRoutes(start, end): the value it resolves with.
RouteEngine_calculateMultipleRoutes(reqStart, reqEnd, answer) ==
  LET tried == TryBackend(answer)
  IN IF tried.threw THEN RouteEngine_createFallbackRoutes(reqStart, reqEnd)
     ELSE tried.routes

\* ----------------------------------------------------------------- state
VARIABLES
  start,          \* the origin of the request
  end,            \* the destination of the request
  fetchOutcome,   \* how the Overpass request ends: "ok", "timeout", "http_error", "no_elements"
  elements,       \* the elements of the Overpass answer
  pc,             \* the position of calculateMultipleRoutes
  graph,          \* the graph fetchWalkingNetwork returned
  startNodeId,    \* findNearestNode(graph, start)
  endNodeId,      \* findNearestNode(graph, end)
  shortestPath,   \* the length search's path, or null
  funPath,        \* the fun-weight search's path, or null
  routes,         \* the routes array being filled
  result,         \* the value the promise resolved with
  call,           \* a direct call of findShortestPath and its return value
  reqBody,        \* the body of the POST /api/routes request
  apiPc,          \* the position of the POST handler
  backendAnswer,  \* the answer of the Python backend to RouteEngine's fetch
  engineRoutes,   \* what RouteEngine.calculateMultipleRoutes resolved with
  httpResponse,   \* the response of the POST handler
  poiPool,        \* the viewpoint and peak POIs of the data set
  directDistance, \* the direct origin-destination distance of the route request
  targetTime,     \* the target walking time of the route request, in minutes
  standardResult, \* the route of the standard search
  plannerState,   \* the state of the Aggressive Viewpoint Planner
  plannerTrace,   \* the states the planner has been in, in order
  candidates,     \* COLLECT's candidates
  ranked,         \* RANK's ordering of the candidates
  chains,         \* COMBINE's waypoint chains
  chosen,         \* SELECT's chain
  callerResult,   \* the route the caller of the planner returns
  direct_time,         \* the walking time of the direct route, in minutes
  target_time_minutes, \* the target time of time_constrained_poi_route
  poi_clusters,        \* the clusters identify_poi_clusters returned
  extensionPc,         \* the position of the call of time_constrained_poi_route
  extensionRoute,      \* the route time_constrained_poi_route returned
  query,          \* the text of the address input
  results,        \* the search results of the address input
  loading,        \* a search request is in flight
  showResults,    \* the dropdown of the address input is open
  selectedIndex,  \* the highlighted result, -1 for none
  timeoutRef,     \* the query of the pending debounce timer, or NoTimer
  inFlight,       \* the search requests not yet answered, by query
  typed,          \* the number of input changes so far
  lastTyped,      \* the most recently typed query
  failedResponse, \* a search response was an error
  lastKey,        \* the last key press and the onLocationSelect calls it made
  located         \* the last place passed to onLocationSelect

osmVars == <<start, end, fetchOutcome, elements, pc, graph, startNodeId, endNodeId,
             shortestPath, funPath, routes, result, call>>
apiVars == <<reqBody, apiPc, backendAnswer, engineRoutes, httpResponse>>
plannerVars == <<poiPool, directDistance, targetTime, standardResult, plannerState,
                 plannerTrace, candidates, ranked, chains, chosen, callerResult>>
extensionVars == <<direct_time, target_time_minutes, poi_clusters, extensionPc,
                   extensionRoute>>
searchVars == <<query, results, loading, showResults, selectedIndex, timeoutRef, inFlight,
                typed, lastTyped, failedResponse, lastKey, located>>
vars == <<osmVars, apiVars, plannerVars, extensionVars, searchVars>>

EmptyGraph == [nodes |-> <<>>, ways |-> <<>>, adjacency |-> <<>>]
NoCall == [made |-> FALSE]
NoResult == <<[name |-> "PENDING"]>>

\* ------------------------------------------------------------- snapshots
NodeElement(id, p) == [type |-> "node", id |-> id, lat |-> p, lon |-> 0, tags |-> EmptyTags]
\* A node element without coordinates.
BareNodeElement(id) == [type |-> "node", id |-> id, tags |-> EmptyTags]
WayElement(id, nodes, tags) == [type |-> "way", id |-> id, nodes |-> nodes, tags |-> tags]

Positions == 0..MaxPos

WayTagSets ==
  { [highway |-> "residential"],
    [highway |-> "footway"],
    [highway |-> "footway", leisure |-> "park"],
    [highway |-> "motorway"] }

\* Tags that close a way to pedestrians.
ClosedWayTagSets ==
  { [highway |-> "footway", foot |-> "no"],
    [highway |-> "residential", access |-> "private"] }

WayNodeLists == { <<1, 2>>, <<2, 3>>, <<1, 3>>, <<1, 1, 2>>, <<1, 2, 3>>, <<3, 4>> }

\* The node elements: node 1 at the origin, nodes 2 and 3 anywhere or bare,
\* node 4 at the far end or bare.
NodeElementLists ==
  { <<NodeElement(1, 0), n2, n3, n4>> :
      n2 \in {BareNodeElement(2)} \cup {NodeElement(2, p) : p \in Positions},
      n3 \in {BareNodeElement(3)} \cup {NodeElement(3, p) : p \in Positions},
      n4 \in {BareNodeElement(4), NodeElement(4, MaxPos)} }

\* At most two way elements, with ids 10 and 11; the first may be closed to
\* pedestrians by its foot or access tag.
WayElementLists ==
  {<<>>}
  \cup { <<WayElement(10, ns, t)>> : ns \in WayNodeLists, t \in WayTagSets \cup ClosedWayTagSets }
  \cup { <<WayElement(10, ns1, t1), WayElement(11, ns2, t2)>> :
           ns1 \in WayNodeLists, t1 \in WayTagSets \cup ClosedWayTagSets,
           ns2 \in WayNodeLists, t2 \in WayTagSets }

Snapshots == {<<>>} \cup { ns \o ws : ns \in NodeElementLists, ws \in WayElementLists }

FetchFailures == {"timeout", "http_error", "no_elements"}

\* The ids a direct call of findShortestPath is given: the ids of the
\* snapshot's nodes, those of the fallback graph and one unknown id.
CallNodeIds == {"1", "2", "3", "4", "start", "end", "404"}

InitOSM ==
  /\ start = Coord(0)
  /\ end = Coord(MaxPos)
  /\ \/ fetchOutcome = "ok" /\ elements \in Snapshots
     \/ fetchOutcome \in FetchFailures /\ elements = <<>>
  /\ pc = "fetch"
  /\ graph = EmptyGraph
  /\ startNodeId = Null
  /\ endNodeId = Null
  /\ shortestPath = NullPath
  /\ funPath = NullPath
  /\ routes = <<>>
  /\ result = NoResult
  /\ call = NoCall

\* No request has reached the API.
IdleAPI ==
  /\ reqBody = [json |-> "none"]
  /\ apiPc = "idle"
  /\ backendAnswer = [kind |-> "none"]
  /\ engineRoutes = <<>>
  /\ httpResponse = [status |-> 0]

\* The Aggressive Viewpoint Planner is not running.
IdlePlanner ==
  /\ poiPool = {}
  /\ directDistance = 0
  /\ targetTime = 0
  /\ standardResult = [name |-> "NONE"]
  /\ plannerState = "OFF"
  /\ plannerTrace = <<>>
  /\ candidates = {}
  /\ ranked = <<>>
  /\ chains = {}
  /\ chosen = <<>>
  /\ callerResult = [name |-> "PENDING"]

\* time_constrained_poi_route is not called.
IdleExtension ==
  /\ direct_time = 0
  /\ target_time_minutes = 0
  /\ poi_clusters = {}
  /\ extensionPc = "off"
  /\ extensionRoute = [via |-> <<>>, time |-> 0]

NoTimer == <<>>
NoKey == [key |-> "none", selected |-> <<>>, from |-> <<>>]
NoPlace == [place_id |-> 0, display_name |-> <<>>]

\* No address input is mounted.
IdleSearch ==
  /\ query = <<>>
  /\ results = <<>>
  /\ loading = FALSE
  /\ showResults = FALSE
  /\ selectedIndex = -1
  /\ timeoutRef = NoTimer
  /\ inFlight = {}
  /\ typed = 0
  /\ lastTyped = <<>>
  /\ failedResponse = FALSE
  /\ lastKey = NoKey
  /\ located = NoPlace

Init == InitOSM /\ IdleAPI /\ IdlePlanner /\ IdleExtension /\ IdleSearch

\* --------------------------------------------------------------- actions
\* fetchWalkingNetwork(start, end) settles: the graph of the answer, or the
\* fallback graph when the request or the reading of the answer throws.
FetchWalkingNetwork ==
  /\ pc = "fetch"
  /\ \/ /\ fetchOutcome = "ok"
        /\ \E adjacent \in SUBSET AdjacentCandidates(ProcessWays(elements, ProcessNodes(elements, <<>>))) :
             graph' = buildGraph(elements, adjacent)
     \/ /\ fetchOutcome # "ok"
        /\ graph' = createFallbackGraph(start, end)
  /\ pc' = "fetched"
  /\ UNCHANGED <<apiVars, plannerVars, extensionVars, searchVars, start, end, fetchOutcome, elements, startNodeId, endNodeId,
                 shortestPath, funPath, routes, result, call>>

\* A direct call findShortestPath(graph, s, e, useLength) on the fetched graph,
\* as the routing test makes it.
CallFindShortestPath ==
  /\ pc = "fetched"
  /\ \E s \in CallNodeIds, e \in CallNodeIds, useLength \in BOOLEAN :
       call' = [made |-> TRUE, startNodeId |-> s, endNodeId |-> e, useLength |-> useLength,
                path |-> findShortestPath(graph, s, e, useLength)]
  /\ pc' = "called"
  /\ UNCHANGED <<apiVars, plannerVars, extensionVars, searchVars, start, end, fetchOutcome, elements, graph, startNodeId, endNodeId,
                 shortestPath, funPath, routes, result>>

\* NearestNodes without the test for a missing nearest node.
NearestNodes_NoNullCheck ==
  /\ pc = "fetched"
  /\ startNodeId' = findNearestNode(graph, start)
  /\ endNodeId' = findNearestNode(graph, end)
  /\ pc' = "shortest"
  /\ UNCHANGED <<apiVars, plannerVars, extensionVars, searchVars, start, end, fetchOutcome, elements, graph, shortestPath, funPath,
                 routes, result, call>>

\* calculateMultipleRoutes, lines 569-577: the end points are snapped to the
\* graph; without a node the function throws into its catch block.
NearestNodes ==
  /\ pc = "fetched"
  /\ startNodeId' = findNearestNode(graph, start)
  /\ endNodeId' = findNearestNode(graph, end)
  /\ pc' = IF startNodeId' = Null \/ endNodeId' = Null THEN "catch" ELSE "shortest"
  /\ UNCHANGED <<apiVars, plannerVars, extensionVars, searchVars, start, end, fetchOutcome, elements, graph, shortestPath, funPath,
                 routes, result, call>>

\* ShortestRoute with a search that keeps its unvisited set in graph.nodes and
\* clears it.
ShortestRoute_SearchClearsNodes ==
  /\ pc = "shortest"
  /\ shortestPath' = findShortestPath(graph, startNodeId, endNodeId, TRUE)
  /\ graph' = [graph EXCEPT !.nodes = <<>>]
  /\ routes' = routes
  /\ pc' = "mostfun"
  /\ UNCHANGED <<apiVars, plannerVars, extensionVars, searchVars, start, end, fetchOutcome, elements, startNodeId, endNodeId,
                 funPath, result, call>>

\* Lines 581-602: "1. Shortest route (by distance)".
ShortestRoute ==
  /\ pc = "shortest"
  /\ shortestPath' = findShortestPath(graph, startNodeId, endNodeId, TRUE)
  /\ routes' = IF shortestPath' # NullPath
               THEN Append(routes, [name |-> "SHORTEST",
                                    coordinates |-> PathCoordinates(graph, shortestPath'),
                                    stats |-> calculateRouteStats(graph, shortestPath'),
                                    priority |-> "speed"])
               ELSE routes
  /\ pc' = "mostfun"
  /\ UNCHANGED <<apiVars, plannerVars, extensionVars, searchVars, start, end, fetchOutcome, elements, graph, startNodeId, endNodeId,
                 funPath, result, call>>

\* Lines 604-620: "2. Most fun route (by fun weight)".
MostFunRoute ==
  /\ pc = "mostfun"
  /\ funPath' = findShortestPath(graph, startNodeId, endNodeId, FALSE)
  /\ routes' = IF funPath' # NullPath /\ funPath' # shortestPath
               THEN Append(routes, [name |-> "MOST_FUN",
                                    coordinates |-> PathCoordinates(graph, funPath'),
                                    stats |-> calculateRouteStats(graph, funPath'),
                                    priority |-> "fun"])
               ELSE routes
  /\ pc' = "balanced"
  /\ UNCHANGED <<apiVars, plannerVars, extensionVars, searchVars, start, end, fetchOutcome, elements, graph, startNodeId, endNodeId,
                 shortestPath, result, call>>

\* Lines 622-641: "3. Balanced route (if we have different routes)".
BalancedRoute ==
  /\ pc = "balanced"
  /\ routes' = IF Len(routes) = 2
               THEN LET balancedPath == findBalancedPath(graph, startNodeId, endNodeId)
                    IN IF balancedPath # NullPath
                       THEN Append(routes, [name |-> "BALANCED",
                                            coordinates |-> PathCoordinates(graph, balancedPath),
                                            stats |-> calculateRouteStats(graph, balancedPath),
                                            priority |-> "balanced"])
                       ELSE routes
               ELSE routes
  /\ pc' = "simple"
  /\ UNCHANGED <<apiVars, plannerVars, extensionVars, searchVars, start, end, fetchOutcome, elements, graph, startNodeId, endNodeId,
                 shortestPath, funPath, result, call>>

\* Lines 643-650: "If no routes found, try to create a simple route".
SimpleRoute ==
  /\ pc = "simple"
  /\ routes' = IF Len(routes) = 0 THEN routes \o createSimpleRoute(graph, start, end)
               ELSE routes
  /\ pc' = "alternative"
  /\ UNCHANGED <<apiVars, plannerVars, extensionVars, searchVars, start, end, fetchOutcome, elements, graph, startNodeId, endNodeId,
                 shortestPath, funPath, result, call>>

\* Lines 652-666: "If we only have one route, create variations", and the return.
AlternativeRoute ==
  /\ pc = "alternative"
  /\ \E offsets \in (IF Len(routes) = 1
                     THEN [1..Len(routes[1].coordinates) -> Offsets \X Offsets]
                     ELSE {<<>>}) :
       routes' = IF Len(routes) = 1
                 THEN Append(routes,
                             [name |-> "ALTERNATIVE",
                              coordinates |-> createAlternativeRoute(routes[1].coordinates, offsets),
                              stats |-> calculateRouteStats(graph, shortestPath),
                              priority |-> "fun"])
                 ELSE routes
  /\ result' = routes'
  /\ pc' = "done"
  /\ UNCHANGED <<apiVars, plannerVars, extensionVars, searchVars, start, end, fetchOutcome, elements, graph, startNodeId, endNodeId,
                 shortestPath, funPath, call>>

\* Lines 668-671: the catch block returns the direct route.
CatchError ==
  /\ pc = "catch"
  /\ result' = createFallbackRoutes(start, end)
  /\ pc' = "done"
  /\ UNCHANGED <<apiVars, plannerVars, extensionVars, searchVars, start, end, fetchOutcome, elements, graph, startNodeId, endNodeId,
                 shortestPath, funPath, routes, call>>

Next ==
  \/ FetchWalkingNetwork
  \/ CallFindShortestPath
  \/ NearestNodes
  \/ ShortestRoute
  \/ MostFunRoute
  \/ BalancedRoute
  \/ SimpleRoute
  \/ AlternativeRoute
  \/ CatchError

Spec == Init /\ [][Next]_vars

\* A property of the request body whose JSON value is null.
JsonNull == [null |-> TRUE]

\* !body[key] of POST, line 9, for a body that is an object: the property is
\* missing or null.
Falsy(body, key) == key \notin DOMAIN body \/ body[key] = JsonNull

\* ------------------------------------------------------- POST /api/routes
\* The bodies of a request: unparsable, the JSON value null, an object lacking
\* an end point (or with a null one), or complete.
RequestBodies ==
  {[json |-> "invalid"], [json |-> "null"]}
  \cup {[json |-> "ok", start |-> Coord(p)] : p \in Positions}
  \cup {[json |-> "ok", end |-> Coord(p)] : p \in Positions}
  \cup {[json |-> "ok", start |-> JsonNull, end |-> Coord(p)] : p \in Positions}
  \cup {[json |-> "ok", start |-> Coord(p), end |-> Coord(q)] : p \in Positions, q \in Positions}

BackendStats == [distance |-> Meter, fun_weight |-> Meter, waypoints |-> 2]

\* The route entries of a backend answer: two well-formed ones (the second
\* with a field the conversion drops) and one without coordinates.
BackendEntries ==
  { [name |-> "SHORTEST", coordinates |-> <<Coord(0), Coord(1)>>,
     stats |-> BackendStats, priority |-> "speed"],
    [name |-> "MOST_FUN", coordinates |-> <<[lat |-> 0, lng |-> 0, ele |-> 7], Coord(1)>>,
     stats |-> BackendStats, priority |-> "fun"],
    [name |-> "BROKEN", stats |-> BackendStats, priority |-> "fun"] }

BackendRouteLists ==
  {<<>>} \cup {<<r>> : r \in BackendEntries}
         \cup {<<r1, r2>> : r1 \in BackendEntries, r2 \in BackendEntries}

BackendData ==
  {[success |-> s] : s \in BOOLEAN}
  \cup {[routes |-> rs] : rs \in BackendRouteLists}
  \cup {[success |-> s, routes |-> rs] : s \in BOOLEAN, rs \in BackendRouteLists}

BackendAnswers ==
  {[kind |-> "timeout"], [kind |-> "network"],
   [kind |-> "http", ok |-> FALSE, status |-> 500],
   [kind |-> "http", ok |-> TRUE, status |-> 200, json |-> "invalid"]}
  \cup {[kind |-> "http", ok |-> TRUE, status |-> 200, json |-> "ok", data |-> d] : d \in BackendData}

InitAPI ==
  /\ reqBody \in RequestBodies
  /\ apiPc = "request"
  /\ backendAnswer = [kind |-> "none"]
  /\ engineRoutes = <<>>
  /\ httpResponse = [status |-> 0]

\* The routing engine of the OSM model is not running.
IdleOSM ==
  /\ start = Coord(0)
  /\ end = Coord(MaxPos)
  /\ fetchOutcome = "ok"
  /\ elements = <<>>
  /\ pc = "idle"
  /\ graph = EmptyGraph
  /\ startNodeId = Null
  /\ endNodeId = Null
  /\ shortestPath = NullPath
  /\ funPath = NullPath
  /\ routes = <<>>
  /\ result = NoResult
  /\ call = NoCall

\* POST, lines 6-19 and 27-32: the body is read and checked, and the engine is
\* called. request.json() throws on a body that is not JSON, and reading
\* body.start throws when the body is the JSON value null; both land in the
\* catch block.
PostRequest ==
  /\ apiPc = "request"
  /\ IF reqBody.json \in {"invalid", "null"}
     THEN /\ httpResponse' = [status |-> 500, success |-> FALSE, error |-> "Failed to calculate routes"]
          /\ apiPc' = "responded"
     ELSE IF Falsy(reqBody, "start") \/ Falsy(reqBody, "end")
     THEN /\ httpResponse' = [status |-> 400, success |-> FALSE,
                              error |-> "Start and end coordinates are required"]
          /\ apiPc' = "responded"
     ELSE /\ httpResponse' = httpResponse
          /\ apiPc' = "fetching"
  /\ UNCHANGED <<osmVars, plannerVars, extensionVars, searchVars, reqBody, backendAnswer, engineRoutes>>

\* The backend's answer settles the fetch of RouteEngine.calculateMultipleRoutes,
\* which runs to its return.
BackendSettles ==
  /\ apiPc = "fetching"
  /\ \E answer \in BackendAnswers :
       /\ backendAnswer' = answer
       /\ engineRoutes' = RouteEngine_calculateMultipleRoutes(reqBody.start, reqBody.end, answer)
  /\ apiPc' = "engine_done"
  /\ UNCHANGED <<osmVars, plannerVars, extensionVars, searchVars, reqBody, httpResponse>>

\* POST, lines 21-26: the success response.
PostRespond ==
  /\ apiPc = "engine_done"
  /\ httpResponse' = [status |-> 200, success |-> TRUE, routes |-> engineRoutes]
  /\ apiPc' = "responded"
  /\ UNCHANGED <<osmVars, plannerVars, extensionVars, searchVars, reqBody, backendAnswer, engineRoutes>>

APINext ==
  \/ PostRequest
  \/ BackendSettles
  \/ PostRespond

InitSpecAPI == IdleOSM /\ InitAPI /\ IdlePlanner /\ IdleExtension /\ IdleSearch

SpecAPI == InitSpecAPI /\ [][APINext]_vars

\* ------------------------------------------- Aggressive Viewpoint Planner
\* The planner lives in poi_routing_engine.py, which is not part of the
\* sources; it is modelled from its documentation and specification.

\* Route Constraints: at most 6 planned viewpoints per route.
MaxPlannedViewpoints == 6

\* Route Constraints: maximum detour factor 4.0 x direct distance.
DetourFactor == 4

\* The planner is activated below 5 viewpoints.
MinViewpoints == 5

\* _format_route_result: the POI list holds 20 annotations.
MaxAnnotations == 20

\* Time tolerance: 60% over target, as a percentage of the target reached.
TolerancePercent == 160

\* The walking time of the standard route, in minutes.
StandardTime == 60

\* The viewpoint and peak POIs of the data set: where each lies (distance from
\* the origin, distance from the direct route), what the detour to it costs and
\* which other viewpoints the walk to it passes.
Poi(id, kind, named, ele, fromOrigin, offRoute, detour, passes) ==
  [id |-> id, kind |-> kind, named |-> named, ele |-> ele, fromOrigin |-> fromOrigin,
   offRoute |-> offRoute, detour |-> detour, passes |-> passes]

\* The viewpoints along the ridge path that leads to peak 7.
RidgeViewpoints == 11..26

PoiUniverse ==
  { Poi(1, "peak", TRUE, TRUE, 2, 3, 30, {}),
    Poi(2, "peak", TRUE, TRUE, 3, 2, 40, {}),
    Poi(3, "peak", TRUE, TRUE, 4, 1, 50, {}),
    Poi(4, "viewpoint", FALSE, FALSE, 1, 0, 10, {}),
    Poi(5, "viewpoint", FALSE, FALSE, 2, 1, 20, {4}),
    Poi(6, "viewpoint", TRUE, FALSE, 3, 2, 20, {}),
    Poi(7, "peak", FALSE, FALSE, 6, 1, 30, RidgeViewpoints),
    Poi(8, "peak", TRUE, TRUE, 9, 5, 90, {}) }

PoiById(id) == CHOOSE x \in PoiUniverse : x.id = id

\* The identities of the other POIs of a route, which are no viewpoints.
OtherPois == <<101, 102>>

\* RANK's four tiers: named peak with elevation data, named viewpoint, unnamed
\* peak, generic viewpoint.
Tier(poi) ==
  CASE poi.kind = "peak" /\ poi.named /\ poi.ele -> 1
    [] poi.kind = "viewpoint" /\ poi.named -> 2
    [] poi.kind = "peak" /\ ~poi.named -> 3
    [] poi.kind = "viewpoint" /\ ~poi.named -> 4

\* RANK's order with proximity to the direct route ahead of the tier.
RanksBefore_ProximityFirst(a, b) ==
  \/ a.offRoute < b.offRoute
  \/ a.offRoute = b.offRoute /\ Tier(a) < Tier(b)
  \/ a.offRoute = b.offRoute /\ Tier(a) = Tier(b) /\ a.id < b.id

\* RANK's order: by tier, within a tier by proximity to the direct route (and
\* by identity between POIs equally near).
RanksBefore(a, b) ==
  \/ Tier(a) < Tier(b)
  \/ Tier(a) = Tier(b) /\ a.offRoute < b.offRoute
  \/ Tier(a) = Tier(b) /\ a.offRoute = b.offRoute /\ a.id < b.id

\* COLLECT: the POIs within the detour budget of the origin.
Collect(pool, direct) == {x \in pool : x.fromOrigin <= DetourFactor * direct}

\* RANK: the identities of the candidates, best first.
RECURSIVE RankSeq(_)
RankSeq(S) ==
  IF S = {} THEN <<>>
  ELSE LET best == CHOOSE x \in S : \A y \in S \ {x} : RanksBefore(x, y)
       IN <<best.id>> \o RankSeq(S \ {best})

\* The elements of a sequence at the positions of I, in the sequence's order.
RECURSIVE PickPositions(_, _, _)
PickPositions(seq, I, from) ==
  IF from > Len(seq) THEN <<>>
  ELSE IF from \in I THEN <<seq[from]>> \o PickPositions(seq, I, from + 1)
  ELSE PickPositions(seq, I, from + 1)

\* COMBINE: the chains over the top-ranked candidates, each in rank order.
Combine(rankedIds) ==
  LET top == IF Len(rankedIds) < MaxPlannedViewpoints THEN Len(rankedIds)
             ELSE MaxPlannedViewpoints
  IN {PickPositions(rankedIds, I, 1) : I \in (SUBSET (1..top)) \ {{}}}

\* The distinct viewpoints the route through a chain visits: its waypoints and
\* the viewpoints the walk to them passes.
Visited(chain) ==
  UNION {{chain[i]} \cup PoiById(chain[i]).passes : i \in 1..Len(chain)}

\* The walking time of the route through a chain.
RECURSIVE ChainTime(_)
ChainTime(chain) ==
  IF chain = <<>> THEN StandardTime
  ELSE PoiById(Head(chain)).detour + ChainTime(Tail(chain))

WithinTolerance(chain, target) == ChainTime(chain) * 100 <= target * TolerancePercent

\* How far the walking time of a chain is from the target time.
TimeGap(chain, target) == Abs(ChainTime(chain) - target)

\* SELECT's order of preference between two chains: more distinct viewpoints
\* first, then within the tolerance, then nearer the target time, then shorter.
Preferred(c, d, target) ==
  \/ Cardinality(Visited(c)) > Cardinality(Visited(d))
  \/ /\ Cardinality(Visited(c)) = Cardinality(Visited(d))
     /\ \/ WithinTolerance(c, target) /\ ~WithinTolerance(d, target)
        \/ /\ WithinTolerance(c, target) = WithinTolerance(d, target)
           /\ \/ TimeGap(c, target) < TimeGap(d, target)
              \/ /\ TimeGap(c, target) = TimeGap(d, target)
                 /\ Len(c) <= Len(d)

\* SELECT that prefers the chain nearest the target time.
Select_ByTimeOnly(cs, target) ==
  CHOOSE c \in cs : \A d \in cs : TimeGap(c, target) <= TimeGap(d, target)

\* SELECT: a chain with the most distinct viewpoints; among those one within
\* the tolerance if there is one, and then the one nearest the target time.
Select(cs, target) ==
  CHOOSE c \in cs : \A d \in cs : Preferred(c, d, target)

\* The viewpoints of a route in the order the route meets them: the waypoints
\* of the chain, then the viewpoints passed on the way.
SetToSeq(S) ==
  [i \in 1..Cardinality(S) |-> CHOOSE x \in S : Cardinality({y \in S : y < x}) = i - 1]

RouteViewpoints(chain) == chain \o SetToSeq(Visited(chain) \ SeqToSet(chain))

\* _format_route_result: the viewpoints first, then the other POIs up to the
\* annotation count.
FormatPois(viewpoints, others) ==
  LET room == IF MaxAnnotations - Len(viewpoints) > 0
              THEN MaxAnnotations - Len(viewpoints) ELSE 0
  IN viewpoints \o SubSeq(others, 1, IF Len(others) < room THEN Len(others) ELSE room)

\* The route of a chain as the caller returns it.
LandmarkRoute(chain) ==
  [name |-> "LANDMARK", viewpoints |-> Cardinality(Visited(chain)),
   time |-> ChainTime(chain), pois |-> FormatPois(RouteViewpoints(chain), OtherPois)]

\* The standard search's route, which met some of the viewpoints.
StandardRoute(met) ==
  [name |-> "STANDARD", viewpoints |-> Len(met), time |-> StandardTime,
   pois |-> FormatPois(met, OtherPois)]

TargetTimes == {90, 180}

DirectDistances == {1, 2}

InitPlanner ==
  /\ poiPool \in SUBSET PoiUniverse
  /\ directDistance \in DirectDistances
  /\ targetTime \in TargetTimes
  /\ standardResult \in {StandardRoute(<<>>), StandardRoute(<<4, 5>>),
                         StandardRoute(<<4, 5, 6, 1, 2>>)}
  /\ plannerState = "IDLE"
  /\ plannerTrace = <<>>
  /\ candidates = {}
  /\ ranked = <<>>
  /\ chains = {}
  /\ chosen = <<>>
  /\ callerResult = [name |-> "PENDING"]

\* The standard search found enough viewpoints: the planner is not activated.
ReturnStandard ==
  /\ plannerState = "IDLE"
  /\ standardResult.viewpoints >= MinViewpoints
  /\ plannerState' = "INACTIVE"
  /\ callerResult' = standardResult
  /\ UNCHANGED <<osmVars, apiVars, extensionVars, searchVars, poiPool, directDistance, targetTime, standardResult,
                 plannerTrace, candidates, ranked, chains, chosen>>

\* The standard search found fewer viewpoints than the minimum: the planner
\* starts in COLLECT.
Activate ==
  /\ plannerState = "IDLE"
  /\ standardResult.viewpoints < MinViewpoints
  /\ plannerState' = "COLLECT"
  /\ plannerTrace' = <<"COLLECT">>
  /\ UNCHANGED <<osmVars, apiVars, extensionVars, searchVars, poiPool, directDistance, targetTime, standardResult,
                 candidates, ranked, chains, chosen, callerResult>>

\* COLLECT with a caller that returns nothing when the planner fails.
CollectStep_DropsStandardResult ==
  /\ plannerState = "COLLECT"
  /\ candidates' = Collect(poiPool, directDistance)
  /\ IF candidates' = {}
     THEN /\ plannerState' = "FAILED"
          /\ callerResult' = [name |-> "NONE"]
     ELSE /\ plannerState' = "RANK"
          /\ callerResult' = callerResult
  /\ plannerTrace' = Append(plannerTrace, plannerState')
  /\ UNCHANGED <<osmVars, apiVars, extensionVars, searchVars, poiPool, directDistance, targetTime, standardResult,
                 ranked, chains, chosen>>

\* COLLECT gathers the candidates; without any the planner reports FAILED and
\* the caller returns the standard result.
CollectStep ==
  /\ plannerState = "COLLECT"
  /\ candidates' = Collect(poiPool, directDistance)
  /\ IF candidates' = {}
     THEN /\ plannerState' = "FAILED"
          /\ callerResult' = standardResult
     ELSE /\ plannerState' = "RANK"
          /\ callerResult' = callerResult
  /\ plannerTrace' = Append(plannerTrace, plannerState')
  /\ UNCHANGED <<osmVars, apiVars, extensionVars, searchVars, poiPool, directDistance, targetTime, standardResult,
                 ranked, chains, chosen>>

RankStep ==
  /\ plannerState = "RANK"
  /\ ranked' = RankSeq(candidates)
  /\ plannerState' = "COMBINE"
  /\ plannerTrace' = Append(plannerTrace, plannerState')
  /\ UNCHANGED <<osmVars, apiVars, extensionVars, searchVars, poiPool, directDistance, targetTime, standardResult,
                 candidates, chains, chosen, callerResult>>

CombineStep ==
  /\ plannerState = "COMBINE"
  /\ chains' = Combine(ranked)
  /\ plannerState' = "SELECT"
  /\ plannerTrace' = Append(plannerTrace, plannerState')
  /\ UNCHANGED <<osmVars, apiVars, extensionVars, searchVars, poiPool, directDistance, targetTime, standardResult,
                 candidates, ranked, chosen, callerResult>>

\* SELECT chooses the chain and the planner is DONE with its route.
SelectStep ==
  /\ plannerState = "SELECT"
  /\ chosen' = Select(chains, targetTime)
  /\ callerResult' = LandmarkRoute(chosen')
  /\ plannerState' = "DONE"
  /\ plannerTrace' = Append(plannerTrace, plannerState')
  /\ UNCHANGED <<osmVars, apiVars, extensionVars, searchVars, poiPool, directDistance, targetTime, standardResult,
                 candidates, ranked, chains>>

PlannerNext ==
  \/ ReturnStandard
  \/ Activate
  \/ CollectStep
  \/ RankStep
  \/ CombineStep
  \/ SelectStep

InitSpecPlanner == IdleOSM /\ IdleAPI /\ InitPlanner /\ IdleExtension /\ IdleSearch

\* The planner runs to its end once started.
SpecPlanner == InitSpecPlanner /\ [][PlannerNext]_vars /\ WF_vars(PlannerNext)

\* ================================================================ claims
\* ---------------------------------------------------------------------------
\* Time-constrained POI routing (time_constrained_poi_route).

\* A cluster of POIs with its detour time in minutes and the summed value of
\* its POIs.
Cluster(id, time_cost, value) == [id |-> id, time_cost |-> time_cost, value |-> value]

ClusterUniverse ==
  {Cluster(1, 10, 30), Cluster(2, 10, 20), Cluster(3, 20, 80), Cluster(4, 40, 40),
   Cluster(5, 50, 300)}

ClusterById(id) == CHOOSE c \in ClusterUniverse : c.id = id

\* efficiency = value / time_cost, compared without division.
MoreEfficient(c, d) == c.value * d.time_cost > d.value * c.time_cost

\* viable_detours.sort(key = efficiency, reverse = True)[0]: the sort is
\* stable, so among equally efficient detours the first of the list wins.
BestDetour(viable) ==
  CHOOSE c \in viable :
    \A d \in viable : d # c => \/ MoreEfficient(c, d)
                               \/ ~MoreEfficient(d, c) /\ c.id < d.id

DirectRoute(direct) == [via |-> <<>>, time |-> direct]

\* create_waypoint_route through the centroid of the cluster.
WaypointRoute(direct, cluster) ==
  [via |-> <<cluster.id>>, time |-> direct + cluster.time_cost]

time_constrained_poi_route(direct, target, clusters) ==
  IF direct >= target THEN DirectRoute(direct)
  ELSE LET extra_time_budget == target - direct
           viable_detours == {c \in clusters : c.time_cost <= extra_time_budget}
       IN IF viable_detours # {}
          THEN WaypointRoute(direct, BestDetour(viable_detours))
          ELSE DirectRoute(direct)

DirectTimes == {20, 60, 100}
TargetMinutes == {60, 90}

InitExtension ==
  /\ direct_time \in DirectTimes
  /\ target_time_minutes \in TargetMinutes
  /\ poi_clusters \in SUBSET ClusterUniverse
  /\ extensionPc = "called"
  /\ extensionRoute = [via |-> <<>>, time |-> 0]

CallTimeConstrainedRoute ==
  /\ extensionPc = "called"
  /\ extensionRoute' = time_constrained_poi_route(direct_time, target_time_minutes,
                                                  poi_clusters)
  /\ extensionPc' = "returned"
  /\ UNCHANGED <<osmVars, apiVars, plannerVars, searchVars, direct_time,
                 target_time_minutes, poi_clusters>>

ExtensionNext ==
  \/ CallTimeConstrainedRoute

InitSpecExtension == IdleOSM /\ IdleAPI /\ IdlePlanner /\ InitExtension /\ IdleSearch

SpecExtension == InitSpecExtension /\ [][ExtensionNext]_vars

\* ---------------------------------------------------------------------------
\* The address input (AddressInput; AddressSearch has the same handlers).

\* The input changes of a run.
MaxKeystrokes == 3

Place(id, name) == [place_id |-> id, display_name |-> name]

\* The texts typed into the input, as sequences of characters.
Queries == {<<"a", "b">>, <<"a", "b", "c">>, <<"a", "b", "c", "d">>}

\* data.results of /api/search-addresses for a query.
BackendResults(searchQuery) ==
  IF searchQuery = <<"a", "b", "c">>
  THEN <<Place(1, <<"A">>), Place(2, <<"B">>), Place(3, <<"C">>)>>
  ELSE IF searchQuery = <<"a", "b", "c", "d">>
  THEN <<Place(4, <<"D">>)>>
  ELSE <<>>

\* How a search request ends: response.ok with data.success; a response that
\* is not ok or has no data.success; fetch or response.json() throwing.
Outcomes == {"success", "failure", "error"}

Keys == {"ArrowDown", "ArrowUp", "Enter", "Escape"}

\* The component after mounting.
InitSearch ==
  /\ query = <<>>
  /\ results = <<>>
  /\ loading = FALSE
  /\ showResults = FALSE
  /\ selectedIndex = -1
  /\ timeoutRef = NoTimer
  /\ inFlight = {}
  /\ typed = 0
  /\ lastTyped = <<>>
  /\ failedResponse = FALSE
  /\ lastKey = NoKey
  /\ located = NoPlace

\* handleInputChange: the pending timer is cleared and a new one is set.
HandleInputChange ==
  \E newQuery \in Queries :
    /\ typed < MaxKeystrokes
    /\ query' = newQuery
    /\ selectedIndex' = -1
    /\ timeoutRef' = <<newQuery>>
    /\ typed' = typed + 1
    /\ lastTyped' = newQuery
    /\ UNCHANGED <<osmVars, apiVars, plannerVars, extensionVars, results, loading,
                   showResults, inFlight, failedResponse, lastKey, located>>

\* The 300 ms timer expires: searchAddresses runs up to its await.
DebounceExpires ==
  /\ timeoutRef # NoTimer
  /\ LET searchQuery == timeoutRef[1]
     IN IF Len(searchQuery) < 3
        THEN /\ results' = <<>>
             /\ showResults' = FALSE
             /\ UNCHANGED <<loading, inFlight>>
        ELSE /\ loading' = TRUE
             /\ inFlight' = inFlight \cup {[id |-> typed, query |-> searchQuery]}
             /\ UNCHANGED <<results, showResults>>
  /\ timeoutRef' = NoTimer
  /\ UNCHANGED <<osmVars, apiVars, plannerVars, extensionVars, query, selectedIndex,
                 typed, lastTyped, failedResponse, lastKey, located>>

\* The answer to a request arrives: searchAddresses runs from its await.
ResponseArrives ==
  \E request \in inFlight, outcome \in Outcomes :
    /\ inFlight' = inFlight \ {request}
    /\ loading' = FALSE
    /\ CASE outcome = "success" ->
              /\ results' = BackendResults(request.query)
              /\ showResults' = (Len(results') > 0)
              /\ UNCHANGED failedResponse
         [] outcome = "failure" ->
              /\ failedResponse' = TRUE
              /\ UNCHANGED <<results, showResults>>
         [] outcome = "error" ->
              /\ results' = <<>>
              /\ failedResponse' = TRUE
              /\ UNCHANGED showResults
    /\ UNCHANGED <<osmVars, apiVars, plannerVars, extensionVars, query, selectedIndex,
                   timeoutRef, typed, lastTyped, lastKey, located>>

\* handleKeyDown; selectedIndex counts from 0.
HandleKeyDown ==
  \E key \in Keys :
    IF ~showResults \/ Len(results) = 0
    THEN /\ lastKey' = [key |-> key, selected |-> <<>>, from |-> results]
         /\ UNCHANGED <<query, showResults, selectedIndex, located>>
         /\ UNCHANGED <<osmVars, apiVars, plannerVars, extensionVars, results, loading,
                        timeoutRef, inFlight, typed, lastTyped, failedResponse>>
    ELSE /\ CASE key = "ArrowDown" ->
                   /\ selectedIndex' = IF selectedIndex < Len(results) - 1
                                       THEN selectedIndex + 1 ELSE selectedIndex
                   /\ lastKey' = [key |-> key, selected |-> <<>>, from |-> results]
                   /\ UNCHANGED <<query, showResults, located>>
              [] key = "ArrowUp" ->
                   /\ selectedIndex' = IF selectedIndex > 0 THEN selectedIndex - 1 ELSE -1
                   /\ lastKey' = [key |-> key, selected |-> <<>>, from |-> results]
                   /\ UNCHANGED <<query, showResults, located>>
              [] key = "Enter" ->
                   IF selectedIndex >= 0 /\ selectedIndex < Len(results)
                   THEN /\ located' = results[selectedIndex + 1]
                        /\ query' = results[selectedIndex + 1].display_name
                        /\ showResults' = FALSE
                        /\ selectedIndex' = -1
                        /\ lastKey' = [key |-> key,
                                       selected |-> <<results[selectedIndex + 1]>>,
                                       from |-> results]
                   ELSE /\ lastKey' = [key |-> key, selected |-> <<>>, from |-> results]
                        /\ UNCHANGED <<query, showResults, selectedIndex, located>>
              [] key = "Escape" ->
                   /\ showResults' = FALSE
                   /\ selectedIndex' = -1
                   /\ lastKey' = [key |-> key, selected |-> <<>>, from |-> results]
                   /\ UNCHANGED <<query, located>>
         /\ UNCHANGED <<osmVars, apiVars, plannerVars, extensionVars, results, loading,
                        timeoutRef, inFlight, typed, lastTyped, failedResponse>>

\* A click on a result of the open dropdown: handleResultSelect.
ClickResult ==
  \E i \in 1..Len(results) :
    /\ showResults
    /\ located' = results[i]
    /\ query' = results[i].display_name
    /\ showResults' = FALSE
    /\ selectedIndex' = -1
    /\ UNCHANGED <<osmVars, apiVars, plannerVars, extensionVars, results, loading,
                   timeoutRef, inFlight, typed, lastTyped, failedResponse, lastKey>>

\* onFocus of the input.
Focus ==
  /\ showResults' = (IF Len(results) > 0 THEN TRUE ELSE showResults)
  /\ UNCHANGED <<osmVars, apiVars, plannerVars, extensionVars, query, results, loading,
                 selectedIndex, timeoutRef, inFlight, typed, lastTyped, failedResponse,
                 lastKey, located>>

\* handleClickOutside.
ClickOutside ==
  /\ showResults' = FALSE
  /\ selectedIndex' = -1
  /\ UNCHANGED <<osmVars, apiVars, plannerVars, extensionVars, query, results, loading,
                 timeoutRef, inFlight, typed, lastTyped, failedResponse, lastKey, located>>

SearchNext ==
  \/ HandleInputChange
  \/ DebounceExpires
  \/ ResponseArrives
  \/ HandleKeyDown
  \/ ClickResult
  \/ Focus
  \/ ClickOutside

InitSpecSearch == IdleOSM /\ IdleAPI /\ IdlePlanner /\ IdleExtension /\ InitSearch

SpecSearch == InitSpecSearch /\ [][SearchNext]_vars

\* Helpers of the statements below.

\* The connections of the graph, whatever node they start at.
Connections(g) ==
  UNION {{[from |-> g.adjacency[i].key, conn |-> g.adjacency[i].val[j]] :
            j \in 1..Len(g.adjacency[i].val)} : i \in 1..Len(g.adjacency)}

RECURSIVE ReachSet(_, _)
\* The nodes joined to a node of S by a walk in the adjacency.
ReachSet(g, S) ==
  LET T == S \cup {c.conn.nodeId : c \in {d \in Connections(g) : d.from \in S}}
  IN IF T = S THEN S ELSE ReachSet(g, T)

Joined(g, s, e) == e \in ReachSet(g, {s})

\* calculateMultipleRoutes holds a graph that buildGraph returned.
GraphBuilt == fetchOutcome = "ok" /\ pc \notin {"fetch", "idle"}
\* calculateMultipleRoutes holds a graph (built, or the fallback graph).
GraphFetched == pc \notin {"fetch", "idle"}

\* The node ids of the snapshot that carry coordinates.
SnapshotNodeIds == MapKeySet(ProcessNodes(elements, <<>>))

\* The backend's answer makes the try block of RouteEngine throw.
BackendFailed(answer) ==
  \/ answer.kind \in {"timeout", "network"}
  \/ /\ answer.kind = "http"
     /\ \/ ~answer.ok
        \/ answer.json = "invalid"
        \/ "success" \notin DOMAIN answer.data
        \/ ~answer.data.success
        \/ "routes" \notin DOMAIN answer.data
        \/ \E i \in 1..Len(answer.data.routes) : "coordinates" \notin DOMAIN answer.data.routes[i]

EngineSettled == apiPc \in {"engine_done", "responded"} /\ backendAnswer.kind # "none"

C3_BackendRoutesNonEmpty ==
  /\ EngineSettled => Len(engineRoutes) >= 1
  /\ (apiPc = "responded" /\ httpResponse.success) => Len(httpResponse.routes) >= 1

\* C2: every completed call of OSMRoutingEngine.calculateMultipleRoutes returns
\* a non-empty list of routes.
C2_AtLeastOneRoute == pc = "done" => Len(result) >= 1

\* C4: for every graph of buildGraph or createFallbackGraph and every pair of
\* distinct nodes joined by a walk in the adjacency, findShortestPath returns a
\* path, with useLength true and with useLength false.
C4_JoinedNodesHaveAPath ==
  (/\ call.made
   /\ call.startNodeId # call.endNodeId
   /\ MapHas(graph.nodes, call.startNodeId)
   /\ MapHas(graph.nodes, call.endNodeId)
   /\ Joined(graph, call.startNodeId, call.endNodeId))
  => call.path # NullPath

\* The summed edge distance of a path: the distance calculateRouteStats reports.
PathDistance(g, path) == calculateRouteStats(g, path).distance

\* C5: when the length search and another search both return a path between
\* the same end points, the length search's path is not the longer one.
C5_LengthSearchIsShortest ==
  (GraphFetched /\ pc = "fetched") =>
     \A s \in MapKeySet(graph.nodes), e \in MapKeySet(graph.nodes) :
        LET byLength == findShortestPath(graph, s, e, TRUE)
            byFun == findShortestPath(graph, s, e, FALSE)
            balanced == findBalancedPath(graph, s, e)
        IN /\ (byLength # NullPath /\ byFun # NullPath)
                => PathDistance(graph, byLength) <= PathDistance(graph, byFun)
           /\ (byLength # NullPath /\ balanced # NullPath)
                => PathDistance(graph, byLength) <= PathDistance(graph, balanced)

\* The case of C5: some pair of end points for which the length search and
\* another search both return a path.
C5_BothSearchesFound ==
  /\ pc = "fetched"
  /\ \E s \in MapKeySet(graph.nodes), e \in MapKeySet(graph.nodes) :
       /\ findShortestPath(graph, s, e, TRUE) # NullPath
       /\ \/ findShortestPath(graph, s, e, FALSE) # NullPath
          \/ findBalancedPath(graph, s, e) # NullPath

\* C6: in every graph buildGraph returns, every node of graph.nodes has an
\* adjacency entry with at least one connection.
C6_NoIsolatedNode ==
  GraphBuilt =>
     \A n \in MapKeySet(graph.nodes) :
        MapHas(graph.adjacency, n) /\ Len(MapGet(graph.adjacency, n)) >= 1

\* C6 witness: a node of the snapshot with coordinates but on no accepted way
\* was pruned from a graph that kept other nodes.
C6_Witness ==
  /\ GraphBuilt
  /\ Len(graph.nodes) >= 2
  /\ SnapshotNodeIds \ MapKeySet(graph.nodes) # {}

\* C7: in every graph buildGraph returns, every adjacency key and every
\* connection's nodeId is a node of graph.nodes and every connection's wayId is
\* a way of graph.ways.
C7_NoDanglingReference ==
  GraphBuilt =>
     /\ MapKeySet(graph.adjacency) \subseteq MapKeySet(graph.nodes)
     /\ \A c \in Connections(graph) :
           /\ c.conn.nodeId \in MapKeySet(graph.nodes)
           /\ c.conn.wayId \in MapKeySet(graph.ways)

\* C7 witness: a graph with connections, built from a snapshot in which an
\* accepted way refers to a node without coordinates.
C7_Witness ==
  /\ GraphBuilt
  /\ Connections(graph) # {}
  /\ \E i \in 1..Len(elements) :
       /\ elements[i].type = "way"
       /\ IdString(elements[i].id) \in MapKeySet(graph.ways)
       /\ \E k \in 1..Len(elements[i].nodes) : IdString(elements[i].nodes[k]) \notin SnapshotNodeIds

\* C8: every connection of every graph buildGraph returns has fun_weight > 0
\* and fun_weight <= distance.
C8_FunWeightPositiveAndBounded ==
  GraphBuilt =>
     \A c \in Connections(graph) :
        c.conn.fun_weight > 0 /\ c.conn.fun_weight <= c.conn.distance

\* C9: findShortestPath returns null when the start or the end node is absent
\* from the graph, has no connections, or the end is not joined to the start;
\* it returns a value in every case.
C9_NoPathIsNull ==
  call.made =>
     /\ call.path # NonTerminating
     /\ (\/ ~MapHas(graph.nodes, call.startNodeId)
         \/ ~MapHas(graph.nodes, call.endNodeId)
         \/ Len(Neighbors(graph, call.startNodeId)) = 0
         \/ Len(Neighbors(graph, call.endNodeId)) = 0
         \/ ~Joined(graph, call.startNodeId, call.endNodeId))
        => call.path = NullPath

\* C9 witness: both nodes are in the graph and have connections, but no walk
\* joins them, and the search returned null.
C9_Witness ==
  /\ call.made
  /\ MapHas(graph.nodes, call.startNodeId)
  /\ MapHas(graph.nodes, call.endNodeId)
  /\ Len(Neighbors(graph, call.startNodeId)) > 0
  /\ Len(Neighbors(graph, call.endNodeId)) > 0
  /\ ~Joined(graph, call.startNodeId, call.endNodeId)
  /\ call.path = NullPath

\* C10: when the snapshot is empty or gives a graph with fewer than 2 connected
\* nodes, calculateMultipleRoutes returns the direct route [start, end].
C10_DirectRouteOnInsufficientData ==
  (pc = "done" /\ fetchOutcome = "ok" /\ (elements = <<>> \/ Len(graph.nodes) < 2)) =>
     /\ Len(result) = 1
     /\ result[1].name = "DIRECT"
     /\ result[1].coordinates = <<start, end>>

\* C10 witness: a snapshot with elements gave a graph without nodes, and the
\* call returned the direct route.
C10_Witness ==
  /\ pc = "done"
  /\ fetchOutcome = "ok"
  /\ elements # <<>>
  /\ Len(graph.nodes) = 0
  /\ result = createFallbackRoutes(start, end)
  /\ start # end
\* The request body has no start or no end: it is not an object, or one of the
\* two properties is missing or null.
BodyLacksEndPoint(body) ==
  \/ body.json = "null"
  \/ body.json = "ok" /\ (Falsy(body, "start") \/ Falsy(body, "end"))

\* The route engine was invoked for the request.
EngineInvoked == apiPc \in {"fetching", "engine_done"} \/ backendAnswer.kind # "none"

\* C11: POST /api/routes answers a body lacking start or end with status 400
\* and success false without invoking the route engine; it answers a body with
\* both with success true and the engine's routes, or with status 500 and
\* success false when the engine or the parsing of the body throws; no
\* response has success true together with an error.
C11_PostResponses ==
  /\ BodyLacksEndPoint(reqBody) => ~EngineInvoked
  /\ apiPc = "responded" =>
       /\ BodyLacksEndPoint(reqBody) =>
            httpResponse.status = 400 /\ ~httpResponse.success
       /\ reqBody.json = "invalid" =>
            httpResponse.status = 500 /\ ~httpResponse.success
       /\ (reqBody.json = "ok" /\ ~BodyLacksEndPoint(reqBody)) =>
            \/ /\ httpResponse.success
               /\ httpResponse.routes = engineRoutes
            \/ httpResponse.status = 500 /\ ~httpResponse.success
       /\ ~(httpResponse.success /\ "error" \in DOMAIN httpResponse)

\* The two complete runs of the planner.
FullRun == <<"COLLECT", "RANK", "COMBINE", "SELECT", "DONE">>

FailedRun == <<"COLLECT", "FAILED">>

IsPrefix(p, q) == Len(p) <= Len(q) /\ SubSeq(q, 1, Len(p)) = p

PlannerEnded == plannerState \in {"DONE", "FAILED"}

\* The states of a run so far are the beginning of one of the two complete
\* runs; the run fails exactly when no POI of the pool lies within the detour
\* budget; and after a failure the caller's result is the standard result.
PlannerRunsInOrder ==
  /\ IsPrefix(plannerTrace, FullRun) \/ plannerTrace = FailedRun
  /\ plannerTrace # <<>> => plannerState = plannerTrace[Len(plannerTrace)]
  /\ Len(plannerTrace) >= 2 =>
       (plannerState = "FAILED" <=>
          ~\E x \in poiPool : x.fromOrigin <= DetourFactor * directDistance)
  /\ plannerState = "DONE" => plannerTrace = FullRun
  /\ plannerState = "FAILED" => callerResult = standardResult

\* C12: every run of the Aggressive Viewpoint Planner passes through COLLECT,
\* RANK, COMBINE, SELECT in that order, without skipping or repeating a state,
\* and ends in DONE or FAILED; it ends in FAILED exactly when COLLECT found no
\* candidate, and the caller then returns the standard search result unchanged.
C12_PlannerStatesInOrder ==
  /\ []PlannerRunsInOrder
  /\ (plannerState = "COLLECT") ~> PlannerEnded

\* C12 witness: the pool has viewpoints but none within the detour budget; the
\* planner failed and the caller holds the standard result.
C12_Witness ==
  /\ plannerState = "FAILED"
  /\ poiPool # {}
  /\ plannerTrace = FailedRun
  /\ callerResult = standardResult

ViewpointIds == {x.id : x \in PoiUniverse}

\* C13: SELECT chooses, among the chains of at most 6 planned viewpoints that
\* COMBINE enumerated, one that visits the most distinct viewpoints, whatever
\* its time; with 3 named peaks and 2 generic viewpoints as candidates the
\* chosen chain visits all 5, and in the output POI list the named peaks
\* precede the generic viewpoints.
C13_MostViewpointsChosen ==
  plannerState = "DONE" =>
     /\ chosen \in chains
     /\ \A c \in chains :
          /\ Len(c) <= MaxPlannedViewpoints
          /\ Cardinality(Visited(c)) <= Cardinality(Visited(chosen))
     /\ callerResult.viewpoints = Cardinality(Visited(chosen))
     /\ {x.id : x \in candidates} = {1, 2, 3, 4, 5} => Visited(chosen) = {1, 2, 3, 4, 5}
     /\ \A i \in 1..Len(callerResult.pois), j \in 1..Len(callerResult.pois) :
          (/\ callerResult.pois[i] \in ViewpointIds
           /\ callerResult.pois[j] \in ViewpointIds
           /\ Tier(PoiById(callerResult.pois[i])) = 1
           /\ Tier(PoiById(callerResult.pois[j])) = 4) => i < j

\* C13 witness: the candidates are 3 named peaks and 2 generic viewpoints, and
\* the chosen chain visits all 5 in more than the target time.
C13_Witness ==
  /\ plannerState = "DONE"
  /\ {x.id : x \in candidates} = {1, 2, 3, 4, 5}
  /\ Cardinality(Visited(chosen)) = 5
  /\ ChainTime(chosen) > targetTime
  /\ \E c \in chains : Abs(ChainTime(c) - targetTime) < Abs(ChainTime(chosen) - targetTime)

\* The least element of a non-empty set of numbers.
Least(S) == CHOOSE m \in S : \A x \in S : m <= x

\* The weight of the cheapest connection from u to v under an objective, or
\* Infinity without one.
CheapestEdge(g, u, v, objective) ==
  LET ws == {EdgeWeight(c.conn, objective) :
               c \in {d \in Connections(g) : d.from = u /\ d.conn.nodeId = v}}
  IN IF ws = {} THEN Infinity ELSE Least(ws)

RECURSIVE CheapestCosts(_, _, _, _)
\* The cost of the cheapest walk of at most `rounds` connections from s to
\* every node of the graph.
CheapestCosts(g, s, objective, rounds) ==
  IF rounds = 0 THEN [n \in MapKeySet(g.nodes) |-> IF n = s THEN 0 ELSE Infinity]
  ELSE LET before == CheapestCosts(g, s, objective, rounds - 1)
       IN [n \in MapKeySet(g.nodes) |->
             Least({before[n]} \cup
                   {before[u] + CheapestEdge(g, u, n, objective) :
                      u \in {w \in MapKeySet(g.nodes) :
                               before[w] < Infinity
                               /\ CheapestEdge(g, w, n, objective) < Infinity}})]

RECURSIVE PathCost(_, _, _)
\* The cost of a path of nodes under an objective, each step by its cheapest
\* connection.
PathCost(g, path, objective) ==
  IF Len(path) < 2 THEN 0
  ELSE CheapestEdge(g, path[1], path[2], objective) + PathCost(g, Tail(path), objective)

\* C14: when the end node is reachable from the start node, findBalancedPath
\* returns a path from start to end whose summed 0.7 x distance + 0.3 x
\* fun_weight is the least over all start-to-end paths.
C14_BalancedPathIsCheapest ==
  (GraphFetched /\ pc = "fetched") =>
     \A s \in MapKeySet(graph.nodes), e \in MapKeySet(graph.nodes) :
        (s # e /\ Joined(graph, s, e)) =>
           LET path == findBalancedPath(graph, s, e)
           IN /\ path # NullPath
              /\ path[1] = s
              /\ path[Len(path)] = e
              /\ PathCost(graph, path, "balanced")
                    = CheapestCosts(graph, s, "balanced", Len(graph.nodes))[e]

\* The state in which the while loop of a direct call of findShortestPath ended.
CallSearchEnd ==
  SearchLoop(graph, call.endNodeId, SearchInit(graph, call.startNodeId),
             IF call.useLength THEN "length" ELSE "fun", maxIterations)

\* The case of C15: the loop of the call ended at the iteration cap with the
\* end node not settled.
C15_StoppedByCap ==
  /\ call.made
  /\ CallSearchEnd.iterations >= maxIterations
  /\ call.endNodeId \in SeqToSet(CallSearchEnd.unvisited)

\* C15: a call of findShortestPath whose loop stopped at the iteration cap
\* before the end node was settled returns null.
C15_CapStopReturnsNull == C15_StoppedByCap => call.path = NullPath

\* The way elements of the snapshot with a given id.
WayElementsWithId(wayId) ==
  {elements[i] : i \in {j \in 1..Len(elements) :
                          elements[j].type = "way" /\ IdString(elements[j].id) = wayId}}

\* The four tests of the claim on a way element, stated on the snapshot: the
\* tags, the road class, the referenced nodes with coordinates, the length.
PassesWayTests(element) ==
  LET tags == ElementTags(element)
      known == SnapshotNodeIds
      refs == [i \in 1..Len(element.nodes) |-> IdString(element.nodes[i])]
      resolved == Filter(refs, known)
      lat(n) == (CHOOSE e \in SeqToSet(elements) :
                    e.type = "node" /\ IdString(e.id) = n /\ "lat" \in DOMAIN e).lat
      total == IF Len(resolved) < 2 THEN 0
               ELSE LET hop(i) == Abs(lat(resolved[i + 1]) - lat(resolved[i]))
                        sum[i \in 0..(Len(resolved) - 1)] ==
                          IF i = 0 THEN 0 ELSE sum[i - 1] + hop(i)
                    IN sum[Len(resolved) - 1]
  IN /\ Tag(tags, "foot") # "no"
     /\ Tag(tags, "access") # "private"
     /\ Tag(tags, "highway") \notin {"motorway", "trunk", "motorway_link", "trunk_link"}
     /\ Len(resolved) >= 2
     /\ total >= UnitsPerMeter

\* C16: buildGraph puts a way in graph.ways, and emits edges for it, only if the
\* way is not tagged foot=no or access=private, its highway is no motorway or
\* trunk road or link, at least 2 of its referenced nodes have coordinates and
\* its total length is at least 1 meter; no edge of the graph carries the id
\* of a way that fails one of these tests.
C16_OnlyWalkableWaysAccepted ==
  (GraphBuilt /\ pc = "fetched") =>
     /\ \A wayId \in MapKeySet(graph.ways) :
          \E element \in WayElementsWithId(wayId) : PassesWayTests(element)
     /\ \A c \in Connections(graph) :
          \E element \in WayElementsWithId(c.conn.wayId) : PassesWayTests(element)

\* C16 witness: the snapshot has a way closed by its tags and a way that is too
\* short or lacks nodes, next to an accepted way whose edges are in the graph.
C16_Witness ==
  /\ GraphBuilt
  /\ pc = "fetched"
  /\ Len(graph.ways) = 1
  /\ Connections(graph) # {}
  /\ \E i \in 1..Len(elements) :
       /\ elements[i].type = "way"
       /\ ~MapHas(graph.ways, IdString(elements[i].id))
       /\ NotForPedestrians(ElementTags(elements[i]))
       /\ Len(Filter([k \in 1..Len(elements[i].nodes) |-> IdString(elements[i].nodes[k])],
                     SnapshotNodeIds)) >= 2

\* How often a value occurs in a sequence.
CountIn(seq, x) == Cardinality({i \in 1..Len(seq) : seq[i] = x})

\* C17: in every graph of buildGraph or createFallbackGraph, every connection
\* u -> v with way w, distance d and fun_weight f has a connection v -> u with
\* the same w, d and f, and both directions occur equally often.
C17_AdjacencySymmetric ==
  (GraphFetched /\ pc = "fetched") =>
     \A c \in Connections(graph) :
        LET back == [c.conn EXCEPT !.nodeId = c.from]
        IN /\ MapHas(graph.adjacency, c.conn.nodeId)
           /\ CountIn(MapGet(graph.adjacency, c.from), c.conn)
                = CountIn(MapGet(graph.adjacency, c.conn.nodeId), back)

\* C17 witness: a built graph of two ways in which a node has connections of
\* both ways, after a node of the snapshot was pruned.
C17_Witness ==
  /\ GraphBuilt
  /\ pc = "fetched"
  /\ Len(graph.ways) = 2
  /\ SnapshotNodeIds \ MapKeySet(graph.nodes) # {}
  /\ \E i \in 1..Len(graph.adjacency) :
       Cardinality({graph.adjacency[i].val[j].wayId :
                      j \in 1..Len(graph.adjacency[i].val)}) = 2

\* The paths of a graph: sequences of two or more distinct nodes, each joined
\* to the next by a connection.
NodePaths(g) ==
  LET ids == MapKeySet(g.nodes)
  IN {q \in UNION {[1..n -> ids] : n \in 2..Cardinality(ids)} :
        /\ \A i \in 1..Len(q), j \in 1..Len(q) : i # j => q[i] # q[j]
        /\ \A i \in 1..(Len(q) - 1) : CheapestEdge(g, q[i], q[i + 1], "fun") < Infinity}

\* The paths a fun-weight search may return: those of least summed fun_weight
\* between their end points, each step over the connection the relaxation
\* keeps, the cheapest one.
FunSearchPaths(g) ==
  {q \in NodePaths(g) :
     PathCost(g, q, "fun") = CheapestCosts(g, q[1], "fun", Len(g.nodes))[q[Len(q)]]}

NodeIdentity(nodeId) == CHOOSE n \in 1..4 : IdString(n) = nodeId

\* The distance findNearestNode measures from a coordinate to a node.
DistanceTo(g, coordinate, nodeId) ==
  calculateDistance(coordinate, NodeCoord(g.nodes, nodeId))

\* C19: findNearestNode returns a node of the graph at the least distance
\* from the coordinate, and among several nodes at that distance the one with
\* the lowest identity, whatever the order of the nodes in the graph.
C19_NearestNodeLowestIdentity ==
  (GraphFetched /\ pc = "fetched" /\ Len(graph.nodes) > 0) =>
     \A p \in Positions :
        LET nearest == findNearestNode(graph, Coord(p))
        IN /\ MapHas(graph.nodes, nearest)
           /\ \A other \in MapKeySet(graph.nodes) :
                /\ DistanceTo(graph, Coord(p), nearest) <= DistanceTo(graph, Coord(p), other)
                /\ (/\ GraphBuilt
                    /\ DistanceTo(graph, Coord(p), nearest) = DistanceTo(graph, Coord(p), other))
                   => NodeIdentity(nearest) <= NodeIdentity(other)

\* A distance cap for the nearest-node lookup, in grid steps.
DistanceCap == 1

\* The coordinates looked up: on the grid of the nodes and beyond it, farther
\* from every node than the cap.
LookupPositions == 0..(MaxPos + DistanceCap + 1)

\* C20: findNearestNode returns null whenever no node of the graph lies within
\* the distance cap of the coordinate; it never returns a node farther away
\* than the cap.
C20_NoNodeBeyondCap ==
  (GraphFetched /\ pc = "fetched") =>
     \A p \in LookupPositions :
        LET nearest == findNearestNode(graph, Coord(p))
        IN nearest # Null =>
             DistanceTo(graph, Coord(p), nearest) <= DistanceCap * FunScale

\* The searches of calculateMultipleRoutes that have run gave what each gives
\* alone on the graph as it is now.
SearchResultsAsAlone ==
  /\ pc \in {"mostfun", "balanced", "simple", "alternative"} =>
       shortestPath = findShortestPath(graph, startNodeId, endNodeId, TRUE)
  /\ pc \in {"balanced", "simple", "alternative"} =>
       funPath = findShortestPath(graph, startNodeId, endNodeId, FALSE)
  /\ pc = "called" =>
       call.path = findShortestPath(graph, call.startNodeId, call.endNodeId, call.useLength)

RouteNames(rs) == {rs[i].name : i \in 1..Len(rs)}

\* calculateMultipleRoutes returned after a length search that found no path.
ReturnedAfterNoPath ==
  /\ pc = "done"
  /\ startNodeId # Null
  /\ endNodeId # Null
  /\ shortestPath = NullPath

\* C22: when the length search of calculateMultipleRoutes finds no path the
\* function goes on to the fun-weight search and the simple route, and when
\* every strategy has failed it returns the direct-line fallback route: never
\* an exception, never an empty list.
C22_NoPathEndsInDirectRoute ==
  /\ (pc = "mostfun" /\ shortestPath = NullPath) => result = NoResult
  /\ ReturnedAfterNoPath =>
       /\ Len(result) >= 1
       /\ RouteNames(result) \cap {"SHORTEST", "MOST_FUN", "BALANCED", "SIMPLE"} = {}
            => result = createFallbackRoutes(start, end)

\* RANK has run.
Ranked == plannerState \in {"COMBINE", "SELECT", "DONE"}

\* C23: RANK's list holds every candidate once; every named peak with
\* elevation data precedes every named viewpoint, which precedes every unnamed
\* peak, which precedes every generic viewpoint, whatever their distances to
\* the direct route; within a tier the nearer to the direct route comes first.
C23_RankedByTierThenProximity ==
  Ranked =>
     /\ SeqToSet(ranked) = {x.id : x \in candidates}
     /\ Len(ranked) = Cardinality(candidates)
     /\ \A i \in 1..Len(ranked), j \in 1..Len(ranked) :
          i < j =>
            /\ Tier(PoiById(ranked[i])) <= Tier(PoiById(ranked[j]))
            /\ Tier(PoiById(ranked[i])) = Tier(PoiById(ranked[j]))
                 => PoiById(ranked[i]).offRoute <= PoiById(ranked[j]).offRoute

\* C23 witness: the ranked list holds all four tiers, and a named peak that
\* lies farther from the direct route than a generic viewpoint ranked after it.
C23_Witness ==
  /\ Ranked
  /\ {Tier(PoiById(ranked[i])) : i \in 1..Len(ranked)} = {1, 2, 3, 4}
  /\ \E i \in 1..Len(ranked), j \in 1..Len(ranked) :
       /\ i < j
       /\ Tier(PoiById(ranked[i])) = 1
       /\ Tier(PoiById(ranked[j])) = 4
       /\ PoiById(ranked[i]).offRoute > PoiById(ranked[j]).offRoute

\* C24: the POI listing of a landmark route lists every viewpoint before any
\* other POI and never holds more than 20 entries, however many viewpoints and
\* other POIs the route has.
C24_PoiListingCapped ==
  plannerState = "DONE" =>
     /\ Len(callerResult.pois) <= MaxAnnotations
     /\ \A i \in 1..Len(callerResult.pois), j \in 1..Len(callerResult.pois) :
          (i < j /\ callerResult.pois[j] \notin SeqToSet(OtherPois))
             => callerResult.pois[i] \notin SeqToSet(OtherPois)

\* The time of the route before its i-th detour was inserted.
RECURSIVE TimeBefore(_, _)
TimeBefore(via, i) ==
  IF i <= 1 THEN direct_time
  ELSE TimeBefore(via, i - 1) + ClusterById(via[i - 1]).time_cost

\* A route time within the tolerance of the target, taken from the 60% the
\* landmark routes are allowed.
WithinExtensionTolerance(time, target) ==
  Abs(time - target) * 100 <= target * (TolerancePercent - 100)

\* The clusters not on the route whose detour still fits the time left.
UnusedViable(route) ==
  {c \in poi_clusters : /\ c.id \notin SeqToSet(route.via)
                        /\ c.time_cost <= target_time_minutes - route.time}

\* C25: a route at or above the target time is returned unchanged; every
\* inserted detour fits the budget left when it is inserted; detours are taken
\* in descending value-per-minute efficiency; the planner stops only when the
\* time is within the tolerance of the target or no viable detour is left; an
\* extended route never exceeds the target by more than the tolerance.
C25_ExtensionWithinBudget ==
  extensionPc = "returned" =>
    LET via == extensionRoute.via
        target == target_time_minutes
    IN /\ direct_time >= target => extensionRoute = DirectRoute(direct_time)
       /\ \A i \in 1..Len(via) :
            ClusterById(via[i]).time_cost <= target - TimeBefore(via, i)
       /\ \A i \in 1..Len(via) : \A c \in poi_clusters :
            (/\ c.id \notin {via[j] : j \in 1..i}
             /\ c.time_cost <= target - TimeBefore(via, i))
               => ~MoreEfficient(c, ClusterById(via[i]))
       /\ direct_time < target =>
            \/ WithinExtensionTolerance(extensionRoute.time, target)
            \/ UnusedViable(extensionRoute) = {}
       /\ via # <<>> => extensionRoute.time * 100 <= target * TolerancePercent

\* The paths the three searches return between two nodes of the graph.
SearchedPaths(g, s, e) ==
  {findShortestPath(g, s, e, TRUE), findShortestPath(g, s, e, FALSE),
   findBalancedPath(g, s, e)}

\* C26: every non-null path of findShortestPath and findBalancedPath starts at
\* startNodeId, ends at endNodeId, visits no node twice, and every two
\* consecutive nodes of it are joined by a connection of the adjacency.
C26_PathsAreSimpleWalks ==
  (GraphFetched /\ pc = "fetched") =>
     \A s \in MapKeySet(graph.nodes), e \in MapKeySet(graph.nodes) :
        \A path \in SearchedPaths(graph, s, e) \ {NullPath} :
           /\ path[1] = s
           /\ path[Len(path)] = e
           /\ \A i \in 1..Len(path), j \in 1..Len(path) : i # j => path[i] # path[j]
           /\ \A i \in 1..(Len(path) - 1) :
                FindConnection(Neighbors(graph, path[i]), path[i + 1]) # <<>>

\* The case of C26: some search returns a path between two nodes of the graph.
C26_SearchFoundPath ==
  /\ pc = "fetched"
  /\ \E s \in MapKeySet(graph.nodes), e \in MapKeySet(graph.nodes) :
       SearchedPaths(graph, s, e) # {NullPath}

RECURSIVE Ancestor(_, _, _)
\* The node reached from n by following k predecessors, or null.
Ancestor(previous, n, k) ==
  IF k = 0 \/ n \notin DOMAIN previous THEN n
  ELSE Ancestor(previous, previous[n], k - 1)

\* The predecessor map has no cycle: every chain of predecessors reaches null.
NoCycle(previous) ==
  \A n \in DOMAIN previous :
     Ancestor(previous, n, Cardinality(DOMAIN previous) + 1) \notin DOMAIN previous

\* C27: findBalancedPath, whose loop has no iteration cap, terminates on every
\* graph: its loop runs at most once per node; and the reconstruction loops of
\* both searches terminate because the predecessor map has no cycle, also in a
\* graph with connections of weight 0.
C27_SearchesTerminate ==
  (GraphFetched /\ pc = "fetched") =>
     \A s \in MapKeySet(graph.nodes), e \in MapKeySet(graph.nodes) :
        LET balanced == SearchLoop(graph, e, SearchInit(graph, s), "balanced", Infinity)
            byLength == SearchLoop(graph, e, SearchInit(graph, s), "length", maxIterations)
            byFun == SearchLoop(graph, e, SearchInit(graph, s), "fun", maxIterations)
        IN /\ balanced.iterations <= Len(graph.nodes)
           /\ NoCycle(balanced.previous)
           /\ NoCycle(byLength.previous)
           /\ NoCycle(byFun.previous)
           /\ NonTerminating \notin SearchedPaths(graph, s, e)

\* C27 witness: the searches ran over a built graph of three nodes or more that
\* has a connection of weight 0 and two distinct joined nodes.
C27_Witness ==
  /\ GraphBuilt
  /\ pc = "fetched"
  /\ Len(graph.nodes) >= 3
  /\ \E c \in Connections(graph) : c.conn.distance = 0 /\ c.conn.fun_weight = 0
  /\ \E s \in MapKeySet(graph.nodes), e \in MapKeySet(graph.nodes) :
       s # e /\ Joined(graph, s, e)

\* calculateMultipleRoutes returned from its try block.
ReturnedWithoutException == pc = "done" /\ result = routes

\* C28: in every list calculateMultipleRoutes returns the route names are
\* pairwise distinct; MOST_FUN is there only if the fun path differs from the
\* length path; BALANCED only with SHORTEST and MOST_FUN; SIMPLE only with
\* neither; ALTERNATIVE exactly when one other route was produced, so that a
\* list returned without exception never has exactly one element.
C28_RouteListShape ==
  pc = "done" =>
    LET names == RouteNames(result)
    IN /\ \A i \in 1..Len(result), j \in 1..Len(result) :
            i # j => result[i].name # result[j].name
       /\ "MOST_FUN" \in names => (funPath # NullPath /\ funPath # shortestPath)
       /\ "BALANCED" \in names => {"SHORTEST", "MOST_FUN"} \subseteq names
       /\ "SIMPLE" \in names => names \cap {"SHORTEST", "MOST_FUN"} = {}
       /\ ReturnedWithoutException =>
            /\ "ALTERNATIVE" \in names <=> Cardinality(names \ {"ALTERNATIVE"}) = 1
            /\ Len(result) # 1

\* The case of C28: a list with a route in it is returned without exception.
C28_RoutesReturned == ReturnedWithoutException /\ result # <<>>

\* No timer is pending and no request is in flight.
SearchQuiet == timeoutRef = NoTimer /\ inFlight = {}

\* The results a query ends with: none when it is shorter than 3 characters.
ExpectedResults(searchQuery) ==
  IF Len(searchQuery) < 3 THEN <<>> ELSE BackendResults(searchQuery)

\* C29: after any interleaving of keystrokes, debounce expiries and search
\* responses (none of them an error), once nothing is pending the displayed
\* results are those of the most recently typed query: an earlier query's late
\* response has not replaced them, and a query shorter than 3 characters ends
\* with empty results.
C29_ResultsOfLastQuery ==
  (SearchQuiet /\ ~failedResponse) => results = ExpectedResults(lastTyped)

\* C30: selectedIndex stays at or above -1 and below max(results.length, 1);
\* a press of Enter calls onLocationSelect at most once, and only with an
\* element of the result list of that moment.
C30_SelectionWithinResults ==
  /\ -1 <= selectedIndex
  /\ selectedIndex < (IF Len(results) > 1 THEN Len(results) ELSE 1)
  /\ lastKey.key = "Enter" =>
       /\ Len(lastKey.selected) <= 1
       /\ SeqToSet(lastKey.selected) \subseteq SeqToSet(lastKey.from)

====
